---- MODULE Spec2Model ----
(***************************************************************************)
(* Resilience layer of the HKA integration: the circuit breaker            *)
(* (lib/hka/circuit-breaker), the error classifier and retry strategy      *)
(* (lib/hka/error-handler) and the call sites of the remote authority in   *)
(* the invoice processor, the status poller and the reconciliation worker. *)
(*                                                                         *)
(* Time is a discrete clock `now`; one handler runs at one instant (the    *)
(* synchronous part of a JavaScript handler is not interleaved with other  *)
(* handlers, and the Date.now() readings inside it are taken as equal).    *)
(* An asynchronous operation is split at its await: the call up to the     *)
(* await is one action, the continuation after the await is another.       *)
(***************************************************************************)
EXTENDS Integers, Sequences, FiniteSets, TLC

\* ------------------------------------------------------------------ bounds
MaxTime == 4
MaxCallers == 2
MaxRequests == 4
MaxFailureThreshold == 2
MaxSuccessThreshold == 2
MaxTimeout == 2
MaxMonitoringPeriod == 2
MaxBaseCalls == 1
MaxWords == 2
MaxAttempt == 7
MaxExecCalls == 2
MaxExecTime == 200000
MaxPollCalls == 1
MaxChanges == 2
MaxInvoices == 6
MaxRuns == 1
MaxQueryFailures == 1
MaxStoreFailures == 1
MaxTicks == 2

\* ------------------------------------------------------------- vocabulary
NULL == -1

Callers == 1..MaxCallers

Components == {"processor", "poller", "reconciliation"}

CircuitStates == {"CLOSED", "OPEN", "HALF_OPEN"}

\* CircuitBreakerConfig: the constructor accepts any configuration; each
\* field takes its least value or its greatest
Configs ==
  [failureThreshold : {1, MaxFailureThreshold},
   successThreshold : {1, MaxSuccessThreshold},
   timeout          : {1, MaxTimeout},
   monitoringPeriod : {1, MaxMonitoringPeriod}]

VARIABLES
  now,                \* Date.now()
  config,             \* CircuitBreaker.config
  state,              \* CircuitBreaker.state
  failures,           \* CircuitBreaker.failures
  successes,          \* CircuitBreaker.successes
  lastFailureTime,    \* CircuitBreaker.lastFailureTime
  nextAttemptTime,    \* CircuitBreaker.nextAttemptTime
  failureTimestamps,  \* CircuitBreaker.failureTimestamps
  totalRequests,      \* CircuitBreaker.totalRequests
  totalFailures,      \* CircuitBreaker.totalFailures
  totalSuccesses,     \* CircuitBreaker.totalSuccesses
  pc,                 \* per caller: "idle", or "awaiting" the wrapped fn()
  invocations,        \* number of times the wrapped operation was invoked
  baseCalls,          \* remote calls the components made on HKASOAPClient
  ev,                 \* last step taken: kind, breaker state before, who
  burst,              \* times of the failures since the last success/reset
  hoSeen,             \* successes observed since HALF_OPEN was entered
  raw,                \* the raw failure handed to classifyHKAError
  classified,         \* what classifyHKAError did with it
  rsError,            \* getRetryStrategy's error argument
  rsAttempt,          \* getRetryStrategy's attemptNumber argument
  strategy,           \* what getRetryStrategy returned
  errPc,              \* "input" before the function is applied, "done" after
  xPc,                \* executeWithProtection: "idle", "awaiting", "sleeping"
  xMethod,            \* executeWithProtection: methodName
  xAttempts,          \* executeWithProtection: attempts
  xStartTime,         \* executeWithProtection: startTime
  xWake,              \* when the pending setTimeout of the retry delay fires
  metrics,            \* EnhancedHKASOAPClient.metrics
  xOutcome,           \* how the last executeWithProtection call ended
  xObs,               \* this call: execute calls, fn calls, delays slept,
                      \* failures caught, metrics recorded; calls so far
  local,              \* prisma.invoice: status of each stored record
  creds,              \* organization.hkaTokenEmpresa / hkaTokenPassword
  remote,             \* the status the authority holds for each document
  recent,             \* the records with createdAt inside the lookback window
  otherWrites,        \* status writes made by the other components
  decisions,          \* status changes made by the authority
  pPc,                \* pollDocumentStatus: "idle", "querying", "sleeping"
  pMaxAttempts,       \* pollDocumentStatus: maxAttempts
  pAttemptCount,      \* pollDocumentStatus: attemptCount
  pStartTime,         \* pollDocumentStatus: startTime
  pWake,              \* when the pending setTimeout of the interval fires
  pResult,            \* how the last pollDocumentStatus call ended
  pObs,               \* this poll: queries, waits, store writes, the status
                      \* read by the last findUnique; passes of the loop and
                      \* calls so far
  rPc,                \* runReconciliation: "idle", "selected", "batch", "delay"
  rSelected,          \* runReconciliation: invoicesToCheck (ids)
  rNext,              \* runReconciliation: i, the offset of the batch
  rRec,               \* per record: reconcileInvoice's position, the status
                      \* it read, the estado it was answered, its result
  report,             \* runReconciliation: report
  rWake,              \* when the pending setTimeout between batches fires
  audit,              \* prisma.auditLog: RECONCILIATION_FIX / _RUN records
  rObs,               \* this run: queries and status updates per record,
                      \* the world's change counters at its start; runs so far
  jPc,                \* the process-invoice job: "none", "waiting", "sending",
                      \* "backoff", "completed", "failed"
  jValid,             \* validateInvoiceData(invoice) reports no error
  jAttemptsMade,      \* job.attemptsMade
  jWake,              \* when the queue's backoff delay of the job is over
  jObs,               \* the job: enviar calls, answers received, the status
                      \* changes it wrote, how the last attempt ended
  tPc,                \* startPeriodicPoller: "stopped", "first", "interval"
  tLoops,             \* the pollDocumentStatus calls made for the document
  tNextTick,          \* when setInterval fires next
  tTicks              \* interval ticks so far

cbVars == <<config, state, failures, successes, lastFailureTime,
            nextAttemptTime, failureTimestamps, totalRequests,
            totalFailures, totalSuccesses>>

obsVars == <<ev, burst, hoSeen>>

errVars == <<raw, classified, rsError, rsAttempt, strategy, errPc>>

execVars == <<xPc, xMethod, xAttempts, xStartTime, xWake, metrics, xOutcome,
              xObs>>

\* the state of the components built on the breaker and the classifier
worldVars == <<local, creds, remote, recent, otherWrites, decisions>>

pollVars == <<pPc, pMaxAttempts, pAttemptCount, pStartTime, pWake, pResult,
              pObs>>

reconVars == <<rPc, rSelected, rNext, rRec, report, rWake, audit, rObs>>

procVars == <<jPc, jValid, jAttemptsMade, jWake, jObs>>

periodicVars == <<tPc, tLoops, tNextTick, tTicks>>

appVars == <<execVars, worldVars, pollVars, reconVars, procVars,
             periodicVars>>

\* what executeWithProtection leaves alone besides the breaker
besidesExec == <<pc, baseCalls, errVars, worldVars, pollVars, reconVars,
                 procVars, periodicVars>>

\* what pollDocumentStatus leaves alone: its client is createHKAClient(...),
\* an HKASOAPClient, so neither breaker nor executor take part
besidesPoll == <<cbVars, pc, invocations, baseCalls, obsVars, errVars,
                 execVars, reconVars, procVars, periodicVars>>

\* what runReconciliation leaves alone: its client too is createHKAClient(...)
besidesRecon == <<cbVars, pc, invocations, baseCalls, obsVars, errVars,
                  execVars, pollVars, procVars, periodicVars>>

\* what processInvoice leaves alone: its client too is createHKAClient(...)
besidesProc == <<cbVars, pc, invocations, baseCalls, obsVars, errVars,
                 execVars, pollVars, reconVars, periodicVars>>

\* what startPeriodicPoller and its polls leave alone
besidesPeriodic == <<cbVars, pc, invocations, baseCalls, obsVars, errVars,
                     execVars, pollVars, reconVars, procVars>>

vars == <<now, cbVars, pc, invocations, baseCalls, obsVars, errVars, appVars>>

\* ----------------------------------------------------------------- helpers
\* JavaScript relational comparison converts null to 0
AsNumber(x) == IF x = NULL THEN 0 ELSE x

\* Array.prototype.filter
RECURSIVE FilterSeq(_, _)
FilterSeq(s, cutoff) ==
  IF s = <<>> THEN <<>>
  ELSE IF Head(s) > cutoff
       THEN <<Head(s)>> \o FilterSeq(Tail(s), cutoff)
       ELSE FilterSeq(Tail(s), cutoff)

Event(kind) == [kind |-> kind, from |-> state, who |-> "caller"]

\* ---------------------------------------------------------- CircuitBreaker
\* execute: the OPEN-state gate, `Date.now() < this.nextAttemptTime!`
IsBlocked_flipped == state = "OPEN" /\ now >= AsNumber(nextAttemptTime)

IsBlocked == state = "OPEN" /\ now < AsNumber(nextAttemptTime)

\* failureTimestamps after push and filter((t) => t > cutoff)
PrunedWindow_keepAll == Append(failureTimestamps, now)

PrunedWindow ==
  FilterSeq(Append(failureTimestamps, now), now - config.monitoringPeriod)

\* onFailure: reopen after a failed trial, or open on a full window
ShouldOpen_thresholdOnly ==
  Len(PrunedWindow) >= config.failureThreshold

ShouldOpen ==
  state = "HALF_OPEN" \/ Len(PrunedWindow) >= config.failureThreshold

\* openCircuit's nextAttemptTime
OpenUntil_unset == nextAttemptTime

OpenUntil == now + config.timeout

\* onSuccess: `this.successes >= this.config.successThreshold`
ClosesAfter_strict(n) == n > config.successThreshold

ClosesAfter(n) == n >= config.successThreshold

\* successes after the OPEN -> HALF_OPEN transition of execute
TrialSuccesses == 0

\* execute up to `await fn()`: count the request, gate on OPEN
executeGate ==
  /\ totalRequests' = totalRequests + 1
  /\ IF IsBlocked
     THEN \* throw new CircuitBreakerOpenError
          /\ ev' = Event("rejected")
          /\ UNCHANGED <<state, successes, hoSeen>>
     ELSE IF state = "OPEN"
     THEN /\ state' = "HALF_OPEN"
          /\ successes' = TrialSuccesses
          /\ hoSeen' = 0
          /\ ev' = Event("trial")
     ELSE /\ UNCHANGED <<state, successes, hoSeen>>
          /\ ev' = Event("invoked")
  /\ UNCHANGED <<config, failures, lastFailureTime, nextAttemptTime,
                 failureTimestamps, totalFailures, totalSuccesses, burst>>

\* onSuccess
onSuccess_keepsWindow ==
  /\ totalSuccesses' = totalSuccesses + 1
  /\ failures' = 0
  /\ IF state = "HALF_OPEN"
     THEN /\ hoSeen' = hoSeen + 1
          /\ IF ClosesAfter(successes + 1)
             THEN state' = "CLOSED" /\ successes' = 0
             ELSE state' = state /\ successes' = successes + 1
     ELSE UNCHANGED <<state, successes, hoSeen>>
  /\ ev' = Event("success")
  /\ burst' = <<>>
  /\ UNCHANGED <<config, lastFailureTime, nextAttemptTime, failureTimestamps,
                 totalRequests, totalFailures>>

onSuccess ==
  /\ totalSuccesses' = totalSuccesses + 1
  /\ failures' = 0
  /\ failureTimestamps' = <<>>
  /\ IF state = "HALF_OPEN"
     THEN /\ hoSeen' = hoSeen + 1
          /\ IF ClosesAfter(successes + 1)
             THEN state' = "CLOSED" /\ successes' = 0
             ELSE state' = state /\ successes' = successes + 1
     ELSE UNCHANGED <<state, successes, hoSeen>>
  /\ ev' = Event("success")
  /\ burst' = <<>>
  /\ UNCHANGED <<config, lastFailureTime, nextAttemptTime, totalRequests,
                 totalFailures>>

\* onFailure (and openCircuit)
onFailure_neverOpens ==
  /\ totalFailures' = totalFailures + 1
  /\ failures' = failures + 1
  /\ lastFailureTime' = now
  /\ failureTimestamps' = PrunedWindow
  /\ UNCHANGED <<state, nextAttemptTime>>
  /\ ev' = Event("failure")
  /\ burst' = Append(burst, now)
  /\ UNCHANGED <<config, successes, totalRequests, totalSuccesses, hoSeen>>

onFailure ==
  /\ totalFailures' = totalFailures + 1
  /\ failures' = failures + 1
  /\ lastFailureTime' = now
  /\ failureTimestamps' = PrunedWindow
  /\ IF ShouldOpen
     THEN state' = "OPEN" /\ nextAttemptTime' = OpenUntil
     ELSE UNCHANGED <<state, nextAttemptTime>>
  /\ ev' = Event("failure")
  /\ burst' = Append(burst, now)
  /\ UNCHANGED <<config, successes, totalRequests, totalSuccesses, hoSeen>>

\* execute, synchronous part: count the request, gate on OPEN, call fn()
ExecuteCall(c) ==
  /\ pc[c] = "idle"
  /\ totalRequests < MaxRequests
  /\ executeGate
  /\ IF IsBlocked
     THEN UNCHANGED <<pc, invocations>>
     ELSE /\ pc' = [pc EXCEPT ![c] = "awaiting"]
          /\ invocations' = invocations + 1
  /\ UNCHANGED <<now, baseCalls, errVars, appVars>>

\* execute, after `await fn()` resolved: onSuccess, return result
OperationSucceeds(c) ==
  /\ pc[c] = "awaiting"
  /\ pc' = [pc EXCEPT ![c] = "idle"]
  /\ onSuccess
  /\ UNCHANGED <<now, invocations, baseCalls, errVars, appVars>>

\* execute, after `await fn()` rejected: onFailure (and openCircuit), rethrow
OperationFails(c) ==
  /\ pc[c] = "awaiting"
  /\ pc' = [pc EXCEPT ![c] = "idle"]
  /\ onFailure
  /\ UNCHANGED <<now, invocations, baseCalls, errVars, appVars>>

\* reset
Reset_keepsWindow ==
  /\ state' = "CLOSED"
  /\ failures' = 0
  /\ successes' = 0
  /\ lastFailureTime' = NULL
  /\ nextAttemptTime' = NULL
  /\ ev' = Event("reset")
  /\ burst' = <<>>
  /\ UNCHANGED <<now, config, failureTimestamps, totalRequests,
                 totalFailures, totalSuccesses, pc, invocations, baseCalls,
                 hoSeen, errVars, appVars>>

Reset ==
  /\ state' = "CLOSED"
  /\ failures' = 0
  /\ successes' = 0
  /\ lastFailureTime' = NULL
  /\ nextAttemptTime' = NULL
  /\ failureTimestamps' = <<>>
  /\ ev' = Event("reset")
  /\ burst' = <<>>
  /\ UNCHANGED <<now, config, totalRequests, totalFailures, totalSuccesses,
                 pc, invocations, baseCalls, hoSeen,
                 errVars, appVars>>

\* ---------------------------------------- call sites of the remote authority
\* processInvoice / pollDocumentStatus / reconcileInvoice: the client is
\* createHKAClient(...), an HKASOAPClient, whose enviar / estadoDocumento
\* reach the SOAP method through executeWithRetry only
ComponentRemoteCall(comp) ==
  /\ baseCalls < MaxBaseCalls
  /\ baseCalls' = baseCalls + 1
  /\ ev' = [kind |-> "base", from |-> state, who |-> comp]
  /\ UNCHANGED <<now, cbVars, pc, invocations, burst, hoSeen, errVars,
                 appVars>>

\* ------------------------------------------------------------------- clock
Tick ==
  /\ now < MaxTime
  /\ now' = now + 1
  /\ ev' = Event("tick")
  /\ UNCHANGED <<cbVars, pc, invocations, baseCalls, burst, hoSeen, errVars,
                 appVars>>

\* ------------------------------------------------- error-handler: data model
UNDEF == "(undefined)"

Categories ==
  {"AUTHENTICATION", "VALIDATION", "BUSINESS_RULE", "SYSTEM", "NETWORK",
   "UNKNOWN"}

Severities == {"CRITICAL", "HIGH", "MEDIUM", "LOW"}

Entry(code, category, severity, retryable, manual) ==
  [code |-> code, category |-> category, severity |-> severity,
   retryable |-> retryable, requiresManualIntervention |-> manual,
   suggestedAction |-> "action:" \o code]

\* ERROR_CATALOG, keyed by code
ERROR_CATALOG ==
  [c \in {"ERR_001"} |-> Entry("ERR_001", "AUTHENTICATION", "CRITICAL", FALSE, TRUE)]
  @@ [c \in {"ERR_003"} |-> Entry("ERR_003", "AUTHENTICATION", "CRITICAL", FALSE, TRUE)]
  @@ [c \in {"ERR_008"} |-> Entry("ERR_008", "AUTHENTICATION", "HIGH", FALSE, TRUE)]
  @@ [c \in {"ERR_002"} |-> Entry("ERR_002", "VALIDATION", "HIGH", FALSE, FALSE)]
  @@ [c \in {"ERR_005"} |-> Entry("ERR_005", "VALIDATION", "HIGH", FALSE, FALSE)]
  @@ [c \in {"ERR_006"} |-> Entry("ERR_006", "VALIDATION", "HIGH", FALSE, FALSE)]
  @@ [c \in {"ERR_007"} |-> Entry("ERR_007", "VALIDATION", "MEDIUM", FALSE, FALSE)]
  @@ [c \in {"ERR_009"} |-> Entry("ERR_009", "VALIDATION", "HIGH", FALSE, FALSE)]
  @@ [c \in {"ERR_004"} |-> Entry("ERR_004", "BUSINESS_RULE", "CRITICAL", FALSE, TRUE)]
  @@ [c \in {"ERR_010"} |-> Entry("ERR_010", "BUSINESS_RULE", "HIGH", FALSE, FALSE)]
  @@ [c \in {"ETIMEDOUT"} |-> Entry("ETIMEDOUT", "NETWORK", "MEDIUM", TRUE, FALSE)]
  @@ [c \in {"ECONNREFUSED"} |-> Entry("ECONNREFUSED", "NETWORK", "HIGH", TRUE, FALSE)]
  @@ [c \in {"ENOTFOUND"} |-> Entry("ENOTFOUND", "NETWORK", "HIGH", TRUE, FALSE)]

\* names every JavaScript object inherits from Object.prototype: a lookup
\* ERROR_CATALOG[name] yields the inherited (truthy) member, not undefined
InheritedKeys == {"toString", "constructor"}

\* Text is a sequence of words; a word stands for itself
Words ==
  {"Timeout", "timed out", "Network", "connection", "auth", "Unauthorized",
   "failed"}

ErrorNames == {"Error", "TimeoutError"}

\* String.prototype.toLowerCase, word by word
LowerWord(w) ==
  CASE w = "Timeout" -> "timeout"
    [] w = "Network" -> "network"
    [] w = "Unauthorized" -> "unauthorized"
    [] w = "Error" -> "error"
    [] w = "TimeoutError" -> "timeouterror"
    [] w = "[object Object]" -> "[object object]"
    [] OTHER -> w

ToLowerCase(text) == [i \in DOMAIN text |-> LowerWord(text[i])]

\* the patterns that occur inside a lower-case word
PatternsIn(w) ==
  CASE w = "timeout" -> {"timeout"}
    [] w = "timeouterror" -> {"timeout"}
    [] w = "timed out" -> {"timed out"}
    [] w = "network" -> {"network"}
    [] w = "connection" -> {"connection"}
    [] w = "auth" -> {"auth"}
    [] w = "unauthorized" -> {"auth", "unauthorized"}
    [] OTHER -> {}

\* String.prototype.includes
Includes(text, pattern) ==
  \E i \in DOMAIN text : pattern \in PatternsIn(text[i])

RECURSIVE SeqsUpTo(_, _)
SeqsUpTo(S, n) ==
  IF n = 0 THEN {<<>>}
  ELSE LET shorter == SeqsUpTo(S, n - 1)
       IN  shorter \cup {Append(t, w) : t \in shorter, w \in S}

Texts == SeqsUpTo(Words, MaxWords)

CatalogCodes == DOMAIN ERROR_CATALOG

\* values of a code field: absent, empty, a catalog code, another code,
\* a name inherited from Object.prototype
CodeVals == {UNDEF, ""} \cup CatalogCodes \cup {"E_OTHER"} \cup InheritedKeys

ResponseCodeVals == {UNDEF, "ERR_002", "ETIMEDOUT", "E_OTHER"}

\* error.response; an absent response reads like one without either field
Responses == [codigo : ResponseCodeVals, code : ResponseCodeVals]

NoResponse == [codigo |-> UNDEF, code |-> UNDEF]

\* what a catch clause can receive
RawFailures ==
  [kind : {"null", "undefined"}]
  \cup [kind : {"string"}, str : Texts \cup {<<c>> : c \in CatalogCodes}]
  \cup [kind : {"Error"}, name : ErrorNames, code : CodeVals,
        response : Responses, message : Texts]
  \cup [kind : {"object"}, code : CodeVals, response : Responses,
        message : Texts]

\* truthiness of a code field, and of a text (<<>> is "" or an absent field)
Truthy(v) == v # UNDEF /\ v # ""

TruthyText(t) == t # <<>>

\* property reads on the raw failure (a string primitive has none of them)
CodeOf(e) == IF e.kind = "string" THEN UNDEF ELSE e.code

ResponseOf(e) == IF e.kind = "string" THEN NoResponse ELSE e.response

MessageOf(e) == IF e.kind = "string" THEN <<>> ELSE e.message

\* error.toString(): the string itself, "name: message" for an Error,
\* "[object Object]" for a plain object
toStringOf(e) ==
  CASE e.kind = "string" -> e.str
    [] e.kind = "Error" -> <<e.name>> \o e.message
    [] e.kind = "object" -> <<"[object Object]">>

\* a string used as a property key
AsKey(text) == IF Len(text) = 1 THEN text[1] ELSE "(text)"

\* ------------------------------------------------ error-handler: functions
\* classifyHKAError: errorCode
ExtractCode_responseFirst(e) ==
  LET r == ResponseOf(e)
  IN  IF Truthy(r.codigo) THEN r.codigo
      ELSE IF Truthy(r.code) THEN r.code
      ELSE IF Truthy(CodeOf(e)) THEN CodeOf(e)
      ELSE IF e.kind = "string" /\ TruthyText(e.str) THEN AsKey(e.str)
      ELSE UNDEF

ExtractCode(e) ==
  LET r == ResponseOf(e)
  IN  IF Truthy(CodeOf(e)) THEN CodeOf(e)
      ELSE IF Truthy(r.codigo) THEN r.codigo
      ELSE IF Truthy(r.code) THEN r.code
      ELSE IF e.kind = "string" /\ TruthyText(e.str) THEN AsKey(e.str)
      ELSE UNDEF

\* error.message || error.toString()
MessageText(e) == IF TruthyText(MessageOf(e)) THEN MessageOf(e) ELSE toStringOf(e)

Returned(entry, message) ==
  [threw |-> FALSE, code |-> entry.code, message |-> message,
   category |-> entry.category, severity |-> entry.severity,
   retryable |-> entry.retryable,
   requiresManualIntervention |-> entry.requiresManualIntervention,
   suggestedAction |-> entry.suggestedAction]

\* the spread of an inherited member has no own properties
NoEntry ==
  [code |-> UNDEF, category |-> UNDEF, severity |-> UNDEF,
   retryable |-> UNDEF, requiresManualIntervention |-> UNDEF,
   suggestedAction |-> UNDEF]

Threw(what) ==
  [threw |-> TRUE, code |-> what, message |-> <<>>, category |-> UNDEF,
   severity |-> UNDEF, retryable |-> UNDEF,
   requiresManualIntervention |-> UNDEF, suggestedAction |-> UNDEF]

Fallback(code, category, severity, retryable, manual) ==
  Entry(code, category, severity, retryable, manual)

\* classifyHKAError
classifyHKAError(e) ==
  IF e.kind \in {"null", "undefined"}
  THEN Threw("TypeError")     \* error.code: cannot read properties of null
  ELSE
    LET errorCode == ExtractCode(e)
        errorString == ToLowerCase(toStringOf(e))
    IN  IF Truthy(errorCode) /\ errorCode \in CatalogCodes
        THEN Returned(ERROR_CATALOG[errorCode], MessageText(e))
        ELSE IF Truthy(errorCode) /\ errorCode \in InheritedKeys
        THEN Returned(NoEntry, MessageText(e))
        ELSE IF Includes(errorString, "timeout")
                \/ Includes(errorString, "timed out")
        THEN Returned(Fallback("TIMEOUT", "NETWORK", "MEDIUM", TRUE, FALSE),
                      MessageText(e))
        ELSE IF Includes(errorString, "network")
                \/ Includes(errorString, "connection")
        THEN Returned(Fallback("NETWORK_ERROR", "NETWORK", "HIGH", TRUE, FALSE),
                      MessageText(e))
        ELSE IF Includes(errorString, "auth")
                \/ Includes(errorString, "unauthorized")
        THEN Returned(Fallback("AUTH_ERROR", "AUTHENTICATION", "CRITICAL",
                               FALSE, TRUE),
                      MessageText(e))
        ELSE Returned(Fallback("UNKNOWN", "UNKNOWN", "HIGH", FALSE, TRUE),
                      MessageText(e))

\* Math.pow(2, n)
RECURSIVE Pow2(_)
Pow2(n) == IF n <= 0 THEN 1 ELSE 2 * Pow2(n - 1)

baseDelay == 2000

maxRetries == 5

\* getRetryStrategy: delayMs of a retry
BackoffDelay_linear(attemptNumber) == baseDelay * (attemptNumber + 1)

BackoffDelay(attemptNumber) == baseDelay * Pow2(attemptNumber)

\* getRetryStrategy
getRetryStrategy(error, attemptNumber) ==
  IF ~error.retryable
  THEN [shouldRetry |-> FALSE, delayMs |-> 0, maxRetries |-> 0]
  ELSE IF error.category = "NETWORK" \/ error.category = "SYSTEM"
  THEN IF attemptNumber >= maxRetries
       THEN [shouldRetry |-> FALSE, delayMs |-> 0, maxRetries |-> maxRetries]
       ELSE [shouldRetry |-> TRUE, delayMs |-> BackoffDelay(attemptNumber),
             maxRetries |-> maxRetries]
  ELSE [shouldRetry |-> FALSE, delayMs |-> 0, maxRetries |-> 0]

\* the HKAError values getRetryStrategy is applied to
HKAErrors ==
  {Returned(Entry("E", cat, "HIGH", r, FALSE), <<>>) :
     cat \in Categories, r \in BOOLEAN}

NoFailure == [kind |-> "none"]

NotYet == [threw |-> FALSE, code |-> "(pending)"]

\* one application of classifyHKAError to the failure at hand
Classify ==
  /\ errPc = "input"
  /\ raw \in RawFailures
  /\ classified' = classifyHKAError(raw)
  /\ errPc' = "done"
  /\ UNCHANGED <<now, cbVars, pc, invocations, baseCalls, obsVars,
                 raw, rsError, rsAttempt, strategy, appVars>>

\* one application of getRetryStrategy to the error and attempt at hand
Decide ==
  /\ errPc = "input"
  /\ rsError \in HKAErrors
  /\ strategy' = getRetryStrategy(rsError, rsAttempt)
  /\ errPc' = "done"
  /\ UNCHANGED <<now, cbVars, pc, invocations, baseCalls, obsVars,
                 raw, classified, rsError, rsAttempt, appVars>>

\* ---------------------------------------------------- EnhancedHKASOAPClient
\* DEFAULT_HKA_CIRCUIT_CONFIG, in milliseconds
DEFAULT_HKA_CIRCUIT_CONFIG ==
  [failureThreshold |-> 5, successThreshold |-> 2, timeout |-> 60000,
   monitoringPeriod |-> 120000]

\* constructor: `circuitBreaker || createHKACircuitBreaker()`, the default
\* breaker or one handed in (here: one whose periods are a millisecond)
ExecConfigs ==
  {DEFAULT_HKA_CIRCUIT_CONFIG}
  \cup {c \in Configs : /\ c.timeout = 1 /\ c.monitoringPeriod = 1
                         /\ c.successThreshold = c.failureThreshold}

\* the wrapped methods
Methods == {"Enviar", "EstadoDocumento"}

\* what `fn()` rejects with: HKASOAPClient rethrows every failure as
\* new Error("HKA SOAP Error (...): " + message), an Error that carries
\* neither code nor response
ExecFailures ==
  {[kind |-> "Error", name |-> "Error", code |-> UNDEF,
    response |-> NoResponse, message |-> <<"HKA SOAP Error", w>>] :
     w \in {"Timeout", "Unauthorized", "failed"}}

\* new CircuitBreakerOpenError(...)
OpenError ==
  [kind |-> "Error", name |-> "CircuitBreakerOpenError", code |-> UNDEF,
   response |-> NoResponse, message |-> <<"Circuit breaker is OPEN">>]

\* the TypeError of a failed property read inside the catch block
TypeErrorRaised ==
  [kind |-> "Error", name |-> "TypeError", code |-> UNDEF,
   response |-> NoResponse, message |-> <<"Cannot read properties">>]

\* error instanceof CircuitBreakerOpenError
IsOpenError(e) == e.kind = "Error" /\ e.name = "CircuitBreakerOpenError"

MetricsCapacity == 100

shift_newest(buffer) == SubSeq(buffer, 1, Len(buffer) - 1)

\* this.metrics.shift()
shift(buffer) == Tail(buffer)

\* recordMetrics: push, and shift once the buffer exceeds its capacity
recordMetrics_keepLast(m) == <<m>>

recordMetrics(m) ==
  LET pushed == Append(metrics, m)
  IN  IF Len(pushed) > MetricsCapacity THEN shift(pushed) ELSE pushed

NoError == [threw |-> FALSE, code |-> "(none)"]

Metric(method, duration, success, error, attempts) ==
  [method |-> method, duration |-> duration, success |-> success,
   error |-> error, attempts |-> attempts]

Pending == [kind |-> "pending", error |-> NoFailure]

\* the catch block's decision to rethrow instead of waiting and retrying
GivesUp_countOnly(error, retryStrategy, attempts) == attempts > maxRetries

GivesUp(error, retryStrategy, attempts) ==
  \/ IsOpenError(error)
  \/ ~retryStrategy.shouldRetry
  \/ attempts > retryStrategy.maxRetries

\* the attemptNumber handed to getRetryStrategy: `attempts - 1`
AttemptIndex_oneBased(attempts) == attempts

AttemptIndex(attempts) == attempts - 1

Rethrown_classified(error, classifiedError) == classifiedError

\* `throw error` once the call gives up: the value that was caught
Rethrown(error, classifiedError) == error

\* executeWithProtection, the catch block
Caught(error, attempts, start, method, obs) ==
  LET classifiedError == classifyHKAError(error)
      retryStrategy ==
        getRetryStrategy(classifiedError, AttemptIndex(attempts))
      seen == [obs EXCEPT !.caught = Append(@, error)]
  IN  IF classifiedError.threw
      THEN /\ xPc' = "idle"
           /\ xWake' = NULL
           /\ xOutcome' = [kind |-> "threw", error |-> TypeErrorRaised]
           /\ xObs' = seen
           /\ UNCHANGED metrics
      ELSE IF GivesUp(error, retryStrategy, attempts)
      THEN /\ metrics' = recordMetrics(Metric(method, now - start, FALSE,
                                              classifiedError, attempts))
           /\ xPc' = "idle"
           /\ xWake' = NULL
           /\ xOutcome' = [kind |-> "threw",
                           error |-> Rethrown(error, classifiedError)]
           /\ xObs' = [seen EXCEPT !.recorded = @ + 1]
      ELSE /\ xPc' = "sleeping"
           /\ xWake' = now + retryStrategy.delayMs
           /\ xOutcome' = Pending
           /\ xObs' = [seen EXCEPT !.waits = Append(@, retryStrategy.delayMs)]
           /\ UNCHANGED metrics

\* executeWithProtection, one pass of the loop up to the await of
\* circuitBreaker.execute
AttemptCore(attempts, start, method, obs) ==
  /\ xAttempts' = attempts
  /\ executeGate
  /\ IF IsBlocked
     THEN /\ Caught(OpenError, attempts, start, method,
                    [obs EXCEPT !.executes = @ + 1])
          /\ UNCHANGED invocations
     ELSE /\ invocations' = invocations + 1
          /\ xPc' = "awaiting"
          /\ xOutcome' = Pending
          /\ xObs' = [obs EXCEPT !.executes = @ + 1, !.ops = @ + 1]
          /\ UNCHANGED <<xWake, metrics>>

\* executeWithProtection(methodName, fn) is called
ExecStart(m) ==
  /\ xPc = "idle"
  /\ xObs.calls < MaxExecCalls
  /\ xMethod' = m
  /\ xStartTime' = now
  /\ AttemptCore(1, now, m,
                 [calls |-> xObs.calls + 1, executes |-> 0, ops |-> 0,
                  waits |-> <<>>, caught |-> <<>>, recorded |-> 0])
  /\ UNCHANGED <<now, besidesExec>>

\* the retry delay has elapsed: next pass of the loop
ExecRetry ==
  /\ xPc = "sleeping"
  /\ now >= xWake
  /\ AttemptCore(xAttempts + 1, xStartTime, xMethod, xObs)
  /\ UNCHANGED <<now, xMethod, xStartTime, besidesExec>>

\* `await fn()` resolved: onSuccess, record the metric, return
ExecOpSucceeds ==
  /\ xPc = "awaiting"
  /\ onSuccess
  /\ metrics' = recordMetrics(Metric(xMethod, now - xStartTime, TRUE, NoError,
                                     xAttempts))
  /\ xPc' = "idle"
  /\ xOutcome' = [kind |-> "returned", error |-> NoFailure]
  /\ xObs' = [xObs EXCEPT !.recorded = @ + 1]
  /\ UNCHANGED <<now, invocations, xMethod, xAttempts, xStartTime, xWake,
                 besidesExec>>

\* `await fn()` rejected: onFailure, then the catch block
ExecOpFails(f) ==
  /\ xPc = "awaiting"
  /\ onFailure
  /\ Caught(f, xAttempts, xStartTime, xMethod, xObs)
  /\ UNCHANGED <<now, invocations, xMethod, xAttempts, xStartTime,
                 besidesExec>>

\* the clock runs to the instant the retry timer fires
SleepElapses ==
  /\ xPc = "sleeping"
  /\ now < xWake
  /\ now' = xWake
  /\ UNCHANGED <<cbVars, pc, invocations, baseCalls, obsVars, errVars,
                 appVars>>

\* time between two calls: the default breaker's timeout
IdleGap == DEFAULT_HKA_CIRCUIT_CONFIG.timeout

IdleTimePasses ==
  /\ xPc = "idle"
  /\ now + IdleGap <= MaxExecTime
  /\ now' = now + IdleGap
  /\ UNCHANGED <<cbVars, pc, invocations, baseCalls, obsVars, errVars,
                 appVars>>

\* -------------------------------------------------------------- status-poller
\* the one document polled
PolledInvoice == 1

\* InvoiceStatus values a polled record is found in
PolledStatuses == {"PROCESSING", "AUTHORIZED", "REJECTED"}

\* EstadoDocumentoResponse.estado
Estados == {"ACEPTADO", "RECHAZADO", "EN_PROCESO", "ANULADO"}

POLLING_INTERVALS == <<5000, 10000, 30000, 60000, 120000, 300000>>

MAX_POLLING_INTERVAL == 300000

MAX_POLLING_TIME == 3600000

\* maxAttempts: the default, and the value pollPendingInvoices passes
DefaultMaxAttempts == 20

BatchMaxAttempts == 3

\* getNextInterval; POLLING_INTERVALS[attemptNumber] counts from 0
getNextInterval(attemptNumber) ==
  IF attemptNumber < Len(POLLING_INTERVALS)
  THEN POLLING_INTERVALS[attemptNumber + 1]
  ELSE MAX_POLLING_INTERVAL

\* prisma.invoice.findUnique: the status of the record, or null
NoRecord == "(null)"

findUnique(id) == IF id \in DOMAIN local THEN local[id] ELSE NoRecord

\* `!invoice`
MissingRecord_never(status) == FALSE

MissingRecord(status) == status = NoRecord

\* `invoice.status === 'AUTHORIZED' || invoice.status === 'REJECTED'`
IsFinal_authorizedOnly(status) == status = "AUTHORIZED"

IsFinal(status) == status = "AUTHORIZED" \/ status = "REJECTED"

\* `elapsedTime > MAX_POLLING_TIME`
OverBudget_never(elapsedTime) == FALSE

OverBudget(elapsedTime) == elapsedTime > MAX_POLLING_TIME

\* a returned PollingResult
PollingResult(status, message, pollCount, totalTime) ==
  [kind |-> "returned", status |-> status, message |-> message,
   pollCount |-> pollCount, totalTime |-> totalTime]

\* a rejection of the promise pollDocumentStatus returned
PollThrew(message) ==
  [kind |-> "threw", status |-> "(none)", message |-> message,
   pollCount |-> 0, totalTime |-> 0]

PollPending ==
  [kind |-> "pending", status |-> "(none)", message |-> "(none)",
   pollCount |-> 0, totalTime |-> 0]

\* pollDocumentStatus, one pass of the loop body up to the await of
\* estadoDocumento
IterationHead(attemptCount, start, obs) ==
  LET elapsedTime == now - start
      status == findUnique(PolledInvoice)
      entered == [obs EXCEPT !.iterations = @ + 1]
      read == [entered EXCEPT !.seen = status]
  IN  IF OverBudget(elapsedTime)
      THEN /\ pResult' = PollingResult("TIMEOUT", "Polling timeout exceeded",
                                       attemptCount, elapsedTime)
           /\ pPc' = "idle"
           /\ pObs' = entered
      ELSE IF MissingRecord(status)
      THEN /\ pResult' = PollThrew("Invoice not found")
           /\ pPc' = "idle"
           /\ pObs' = read
      ELSE IF IsFinal(status)
      THEN /\ pResult' =
                PollingResult(IF status = "AUTHORIZED" THEN "ACEPTADO"
                                                       ELSE "RECHAZADO",
                              "Status already finalized", attemptCount,
                              elapsedTime)
           /\ pPc' = "idle"
           /\ pObs' = read
      ELSE IF creds = "absent"
      THEN /\ pResult' = PollThrew("HKA credentials not configured")
           /\ pPc' = "idle"
           /\ pObs' = read
      ELSE IF creds = "undecryptable"
      THEN /\ pResult' = PollThrew("decrypt failed")
           /\ pPc' = "idle"
           /\ pObs' = read
      ELSE /\ pResult' = PollPending
           /\ pPc' = "querying"
           /\ pObs' = [read EXCEPT !.queries = @ + 1]

FreshPoll ==
  [calls |-> pObs.calls + 1, iterations |-> pObs.iterations, queries |-> 0,
   failed |-> 0,
   waits |-> <<>>, writes |-> 0, seen |-> "(unread)"]

\* pollDocumentStatus(invoiceId, maxAttempts) is called
PollStart(maxAttempts) ==
  /\ pPc = "idle"
  /\ pObs.calls < MaxPollCalls
  /\ pMaxAttempts' = maxAttempts
  /\ pAttemptCount' = 0
  /\ pStartTime' = now
  /\ IterationHead(0, now, FreshPoll)
  /\ UNCHANGED <<now, worldVars, pWake, besidesPoll>>

UpdateRecord_skipped(estado) == local

\* prisma.invoice.update after a final answer
UpdateRecord(estado) ==
  [local EXCEPT ![PolledInvoice] =
     IF estado = "ACEPTADO" THEN "AUTHORIZED" ELSE "REJECTED"]

\* the query answered with a final status: update the record, return
\* the query answered with another status: count, wait the next interval
PollQueryReturns ==
  /\ pPc = "querying"
  /\ LET estado == remote[PolledInvoice]
     IN  IF estado = "ACEPTADO" \/ estado = "RECHAZADO"
         THEN /\ local' = UpdateRecord(estado)
              /\ pResult' = PollingResult(estado, "(mensaje)",
                                          pAttemptCount + 1, now - pStartTime)
              /\ pPc' = "idle"
              /\ pObs' = [pObs EXCEPT !.writes = @ + 1]
              /\ UNCHANGED <<pAttemptCount, pWake>>
         ELSE /\ pAttemptCount' = pAttemptCount + 1
              /\ pWake' = now + getNextInterval(pAttemptCount + 1)
              /\ pPc' = "sleeping"
              /\ pObs' = [pObs EXCEPT !.waits =
                             Append(@, getNextInterval(pAttemptCount + 1))]
              /\ UNCHANGED <<local, pResult>>
  /\ UNCHANGED <<now, creds, remote, recent, otherWrites, decisions,
                 pMaxAttempts, pStartTime, besidesPoll>>

PollQueryFails_endsPoll ==
  /\ pPc = "querying"
  /\ pResult' = PollThrew("query failed")
  /\ pPc' = "idle"
  /\ pObs' = [pObs EXCEPT !.failed = @ + 1]
  /\ UNCHANGED <<now, worldVars, pMaxAttempts, pAttemptCount, pStartTime,
                 pWake, besidesPoll>>

\* the query (or the update after it) failed: the catch block counts and
\* waits the next interval
PollQueryFails ==
  /\ pPc = "querying"
  /\ pAttemptCount' = pAttemptCount + 1
  /\ pWake' = now + getNextInterval(pAttemptCount + 1)
  /\ pPc' = "sleeping"
  /\ pObs' = [pObs EXCEPT !.failed = @ + 1,
                          !.waits = Append(@, getNextInterval(pAttemptCount + 1))]
  /\ UNCHANGED <<now, worldVars, pMaxAttempts, pStartTime, pResult,
                 besidesPoll>>

\* the interval has elapsed: the loop condition, then the next pass
PollResume ==
  /\ pPc = "sleeping"
  /\ now >= pWake
  /\ IF pAttemptCount < pMaxAttempts
     THEN IterationHead(pAttemptCount, pStartTime, pObs)
     ELSE /\ pResult' = PollingResult("TIMEOUT", "Max polling attempts reached",
                                      pAttemptCount, now - pStartTime)
          /\ pPc' = "idle"
          /\ pObs' = pObs
  /\ UNCHANGED <<now, worldVars, pMaxAttempts, pAttemptCount, pStartTime,
                 pWake, besidesPoll>>

\* the clock runs to the instant the interval timer fires
PollSleepElapses ==
  /\ pPc = "sleeping"
  /\ now < pWake
  /\ now' = pWake
  /\ UNCHANGED <<worldVars, pollVars, besidesPoll>>

\* the authority settles a document it was processing, or annuls one it
\* had accepted
AuthorityDecides(i, estado) ==
  /\ i \in DOMAIN remote
  /\ decisions + otherWrites < MaxChanges
  /\ \/ remote[i] = "EN_PROCESO" /\ estado \in {"ACEPTADO", "RECHAZADO"}
     \/ remote[i] = "ACEPTADO" /\ estado = "ANULADO"
  /\ remote' = [remote EXCEPT ![i] = estado]
  /\ decisions' = decisions + 1
  /\ UNCHANGED <<now, local, creds, recent, otherWrites, pollVars, reconVars,
                 procVars, periodicVars, cbVars, pc, invocations, baseCalls,
                 obsVars, errVars, execVars>>

\* another component writes the status of a stored record meanwhile:
\* processInvoice (AUTHORIZED, REJECTED, FAILED in its catch block),
\* pollDocumentStatus or reconcileInvoice (AUTHORIZED, REJECTED), the user
\* who cancels a document (CANCELLED)
StoreWrittenElsewhere(i, status) ==
  /\ i \in DOMAIN local
  /\ decisions + otherWrites < MaxChanges
  /\ otherWrites' = otherWrites + 1
  /\ local' = [local EXCEPT ![i] = status]
  /\ UNCHANGED <<now, creds, remote, recent, decisions, pollVars, reconVars,
                 procVars, periodicVars, cbVars, pc, invocations, baseCalls,
                 obsVars, errVars, execVars>>

\* ------------------------------------------------------ reconciliation worker
Invoices == 1..MaxInvoices

\* the record another worker (processInvoice, pollDocumentStatus) is
\* handling while the model runs
HandledElsewhere == 1

\* the documents the authority decides on while the model runs: the one
\* another worker is handling and the last one (of the second batch)
Drifting == {HandledElsewhere, MaxInvoices}

Credentials == {"configured", "absent", "undecryptable"}

\* findMany: `status: { in: [...] }`
SelectedStatuses == {"QUEUED", "PROCESSING", "AUTHORIZED", "REJECTED"}

batchSize == 5

BatchDelay == 2000

\* hkaToLocalStatus[statusResponse.estado]
hkaToLocalStatus(estado) ==
  CASE estado = "ACEPTADO" -> "AUTHORIZED"
    [] estado = "RECHAZADO" -> "REJECTED"
    [] estado = "EN_PROCESO" -> "PROCESSING"
    [] estado = "ANULADO" -> "ANNULLED"
    [] OTHER -> UNDEF

\* `invoice.status !== expectedStatus`
Differs_always(status, expectedStatus) == TRUE

Differs(status, expectedStatus) == status # expectedStatus

\* the ids of a set in the order findMany returns the records
RECURSIVE Ordered(_)
Ordered(S) ==
  IF S = {} THEN <<>>
  ELSE LET first == CHOOSE i \in S : \A j \in S : i <= j
       IN  <<first>> \o Ordered(S \ {first})

Batch_unsliced(i) == {rSelected[k] : k \in {k \in DOMAIN rSelected : i < k}}

\* invoicesToCheck.slice(i, i + batchSize)
Batch(i) ==
  {rSelected[k] : k \in {k \in DOMAIN rSelected : i < k /\ k <= i + batchSize}}

\* the reconcileInvoice calls of the running batch that await their query
Outstanding == {i \in Batch(rNext) : rRec[i].pc = "querying"}

\* the records of a batch share no state: their queries are settled in
\* the order of the ids
NextSettled == CHOOSE i \in Outstanding : \A j \in Outstanding : i <= j

NotReconciled ==
  [pc |-> "none", seen |-> "(unread)", answer |-> "(none)",
   result |-> "(none)"]

Settled(seen, answer, result) ==
  [pc |-> "done", seen |-> seen, answer |-> answer, result |-> result]

ReadRecord_queriesCancelled(i) ==
  LET status == findUnique(i)
  IN  IF status = NoRecord
      THEN Settled(status, "(none)", "Invoice not found")
      ELSE IF creds = "absent"
      THEN Settled(status, "(none)", "No HKA credentials")
      ELSE IF creds = "undecryptable"
      THEN Settled(status, "(none)", "rejected")
      ELSE [pc |-> "querying", seen |-> status, answer |-> "(none)",
            result |-> "(none)"]

\* reconcileInvoice up to the await of estadoDocumento
ReadRecord(i) ==
  LET status == findUnique(i)
  IN  IF status = NoRecord
      THEN Settled(status, "(none)", "Invoice not found")
      ELSE IF status = "DRAFT" \/ status = "CANCELLED"
      THEN Settled(status, "(none)", "Skipped (draft or cancelled)")
      ELSE IF creds = "absent"
      THEN Settled(status, "(none)", "No HKA credentials")
      ELSE IF creds = "undecryptable"
      THEN Settled(status, "(none)", "rejected")   \* decrypt throws
      ELSE [pc |-> "querying", seen |-> status, answer |-> "(none)",
            result |-> "(none)"]

NoCounts == [i \in Invoices |-> 0]

EmptyReport ==
  [totalChecked |-> 0, discrepanciesFound |-> 0, fixed |-> 0, errors |-> 0,
   details |-> <<>>]

\* runReconciliation: findMany and the fresh report
RunStart ==
  /\ rPc = "idle"
  /\ rObs.runs < MaxRuns
  /\ LET invoicesToCheck ==
           Ordered({i \in DOMAIN local :
                      i \in recent /\ local[i] \in SelectedStatuses})
     IN  /\ rSelected' = invoicesToCheck
         /\ report' = [EmptyReport EXCEPT
                         !.totalChecked = Len(invoicesToCheck)]
  /\ rPc' = "selected"
  /\ rNext' = 0
  /\ rRec' = [i \in Invoices |-> NotReconciled]
  /\ rObs' = [runs |-> rObs.runs + 1, queries |-> NoCounts,
              writes |-> NoCounts, batches |-> 0, failures |-> rObs.failures,
              decisionsAtStart |-> decisions,
              otherWritesAtStart |-> otherWrites,
              fixesAtStart |-> audit.fix]
  /\ UNCHANGED <<now, worldVars, rWake, audit, besidesRecon>>

\* the final auditLog.create and `return report`
Finish(finalReport) ==
  /\ report' = finalReport
  /\ audit' = [audit EXCEPT !.run = @ + 1]
  /\ rPc' = "idle"

\* no record selected: the loop is skipped
RunEmpty ==
  /\ rPc = "selected"
  /\ rSelected = <<>>
  /\ Finish(report)
  /\ UNCHANGED <<now, worldVars, rSelected, rNext, rRec, rWake, rObs,
                 besidesRecon>>

\* Promise.allSettled(batch.map(reconcileInvoice)): every reconcileInvoice
\* of the batch reads its record and starts its query
BatchStart ==
  /\ \/ rPc = "selected" /\ rSelected # <<>>
     \/ rPc = "delay" /\ now >= rWake
  /\ rPc' = "batch"
  /\ rRec' = [i \in Invoices |->
               IF i \in Batch(rNext) THEN ReadRecord(i) ELSE rRec[i]]
  /\ rObs' = [rObs EXCEPT
               !.batches = @ + 1,
               !.queries = [i \in Invoices |->
                              IF i \in Batch(rNext)
                                 /\ ReadRecord(i).pc = "querying"
                              THEN @[i] + 1 ELSE @[i]]]
  /\ UNCHANGED <<now, worldVars, rSelected, rNext, report, rWake, audit,
                 besidesRecon>>

\* the authority answers a status query with the status the document has
\* at that instant; the answer is on its way while the authority and the
\* other writers of the store go on (told apart from the arrival for the
\* documents that change meanwhile)
AuthorityAnswers ==
  /\ rPc = "batch"
  /\ Outstanding # {}
  /\ NextSettled \in Drifting
  /\ rRec[NextSettled].answer = "(none)"
  /\ rRec' = [rRec EXCEPT ![NextSettled].answer = remote[NextSettled]]
  /\ UNCHANGED <<now, worldVars, rPc, rSelected, rNext, report, rWake, audit,
                 rObs, besidesRecon>>

\* the answer to a status query arrives: compare, and on a discrepancy
\* update the record and create the RECONCILIATION_FIX audit record
RecAnswer ==
  /\ rPc = "batch"
  /\ Outstanding # {}
  /\ LET i == NextSettled
         estado == IF rRec[i].answer = "(none)" THEN remote[i]
                                                ELSE rRec[i].answer
         expectedStatus == hkaToLocalStatus(estado)
     IN  IF Differs(rRec[i].seen, expectedStatus)
         THEN /\ local' = IF expectedStatus = UNDEF THEN local
                                  ELSE [local EXCEPT ![i] = expectedStatus]
              /\ audit' = [audit EXCEPT !.fix = @ + 1]
              /\ rRec' = [rRec EXCEPT ![i] =
                            Settled(@.seen, estado, "Fixed")]
              /\ rObs' = [rObs EXCEPT !.writes[i] = @ + 1]
         ELSE /\ rRec' = [rRec EXCEPT ![i] =
                            Settled(@.seen, estado, "Status matches")]
              /\ UNCHANGED <<local, audit, rObs>>
  /\ UNCHANGED <<now, creds, remote, recent, otherWrites, decisions, rPc,
                 rSelected, rNext, report, rWake, besidesRecon>>

\* a status query fails: reconcileInvoice's catch block returns a result
RecQueryFails ==
  /\ rPc = "batch"
  /\ Outstanding # {}
  /\ rObs.failures < MaxQueryFailures
  /\ rRec' = [rRec EXCEPT ![NextSettled] = Settled(@.seen, "(none)", "Error")]
  /\ rObs' = [rObs EXCEPT !.failures = @ + 1]
  /\ UNCHANGED <<now, worldVars, rPc, rSelected, rNext, report, rWake, audit,
                 besidesRecon>>

Tallied_withoutDetails ==
  LET fixedIds == Ordered({i \in Batch(rNext) : rRec[i].result = "Fixed"})
      rejected == {i \in Batch(rNext) : rRec[i].result = "rejected"}
  IN  [report EXCEPT
         !.discrepanciesFound = @ + Len(fixedIds),
         !.fixed = @ + Len(fixedIds),
         !.errors = @ + Cardinality(rejected)]

\* results.forEach: the report after the batch
Tallied ==
  LET fixedIds == Ordered({i \in Batch(rNext) : rRec[i].result = "Fixed"})
      rejected == {i \in Batch(rNext) : rRec[i].result = "rejected"}
  IN  [report EXCEPT
         !.discrepanciesFound = @ + Len(fixedIds),
         !.fixed = @ + Len(fixedIds),
         !.details = @ \o fixedIds,
         !.errors = @ + Cardinality(rejected)]

\* allSettled resolved: tally, then wait before the next batch or finish
BatchSettled ==
  /\ rPc = "batch"
  /\ Outstanding = {}
  /\ IF rNext + batchSize < Len(rSelected)
     THEN /\ report' = Tallied
          /\ rPc' = "delay"
          /\ rWake' = now + BatchDelay
          /\ rNext' = rNext + batchSize
          /\ UNCHANGED audit
     ELSE /\ Finish(Tallied)
          /\ UNCHANGED <<rWake, rNext>>
  /\ UNCHANGED <<now, worldVars, rSelected, rRec, rObs, besidesRecon>>

\* the clock runs to the instant the delay between batches is over
ReconDelayElapses ==
  /\ rPc = "delay"
  /\ now < rWake
  /\ now' = rWake
  /\ UNCHANGED <<worldVars, reconVars, besidesRecon>>

\* ----------------------------------------------------------- invoice processor
\* the invoice of the job
JobInvoice == 1

\* invoiceProcessingQueue: defaultJobOptions.attempts
QueueAttempts == 5

\* invoiceProcessingQueue: backoff { type: 'exponential', delay: 3000 }
QueueBackoffDelay == 3000

\* the queue's exponential backoff after the attemptsMade-th failed attempt
Backoff(attemptsMade) == QueueBackoffDelay * 2 ^ (attemptsMade - 1)

\* what Enviar answers: isHKASuccess(codigo) with a cufe, or not
EnviarAnswers == {"accepted", "rejected"}

\* the status the authority holds once it has answered a submission
Decided(answer) ==
  IF JobInvoice \in DOMAIN remote /\ remote[JobInvoice] = "ACEPTADO"
  THEN remote
  ELSE [i \in {JobInvoice} |->
          IF answer = "accepted" THEN "ACEPTADO" ELSE "RECHAZADO"]

\* may the queue run the job again after this failed attempt
QueueRetries(attemptsMade) == attemptsMade < QueueAttempts

\* processInvoice's catch block and what the queue does with the error:
\* status FAILED, the error thrown again, the job retried after the backoff
\* while attempts remain
AttemptThrows(statusBefore, obs, ended) ==
  /\ local' = [local EXCEPT ![JobInvoice] = "FAILED"]
  /\ jObs' = [obs EXCEPT
               !.transitions = @ \cup {<<statusBefore, "FAILED">>},
               !.ended = ended]
  /\ jAttemptsMade' = jAttemptsMade + 1
  /\ IF QueueRetries(jAttemptsMade + 1)
     THEN /\ jPc' = "backoff"
          /\ jWake' = now + Backoff(jAttemptsMade + 1)
     ELSE /\ jPc' = "failed"
          /\ UNCHANGED jWake

\* the worker takes the job: processInvoice up to `await hkaClient.enviar`
JobStart ==
  /\ \/ jPc = "waiting"
     \/ jPc = "backoff" /\ now >= jWake
  /\ LET obs == [jObs EXCEPT
                   !.attempts = @ + 1,
                   !.transitions = @ \cup {<<local[JobInvoice], "PROCESSING">>}]
     IN  IF creds = "absent"
         THEN AttemptThrows("PROCESSING", obs, "no credentials")
         ELSE IF creds = "undecryptable"
         THEN AttemptThrows("PROCESSING", obs, "decrypt failed")
         ELSE IF ~jValid
         THEN AttemptThrows("PROCESSING", obs, "validation failed")
         ELSE /\ local' = [local EXCEPT ![JobInvoice] = "PROCESSING"]
              /\ jPc' = "sending"
              /\ jObs' = [obs EXCEPT !.enviarCalls = @ + 1]
              /\ UNCHANGED <<jAttemptsMade, jWake>>
  /\ UNCHANGED <<now, creds, remote, recent, otherWrites, decisions, jValid,
                 besidesProc>>

\* Enviar answers: AUTHORIZED and the audit record, or REJECTED, the audit
\* record and `throw new Error('HKA rejected invoice: ...')`
EnviarReturns(answer, auditWritten) ==
  /\ jPc = "sending"
  /\ auditWritten \/ (answer = "accepted"
                       /\ jObs.storeFailures < MaxStoreFailures)
  /\ remote' = Decided(answer)
  /\ LET before == local[JobInvoice]
     IN  IF answer = "accepted"
         THEN LET obs == [jObs EXCEPT
                           !.accepted = @ + 1,
                           !.transitions = @ \cup {<<before, "AUTHORIZED">>}]
              IN  IF auditWritten
                  THEN /\ local' = [local EXCEPT ![JobInvoice] = "AUTHORIZED"]
                       /\ jPc' = "completed"
                       /\ jObs' = [obs EXCEPT !.ended = "authorized"]
                       /\ UNCHANGED <<jAttemptsMade, jWake>>
                  ELSE AttemptThrows("AUTHORIZED",
                                     [obs EXCEPT !.storeFailures = @ + 1],
                                     "audit failed")
         ELSE AttemptThrows("REJECTED",
                            [jObs EXCEPT
                               !.rejected = @ + 1,
                               !.transitions = @ \cup {<<before, "REJECTED">>}],
                            "rejected")
  /\ UNCHANGED <<now, creds, recent, otherWrites, decisions, jValid,
                 besidesProc>>

\* Enviar throws (a transport error the client gave up on); the authority
\* may have received the document all the same
EnviarThrows(delivered) ==
  /\ jPc = "sending"
  /\ remote' = IF delivered THEN Decided("accepted") ELSE remote
  /\ AttemptThrows(local[JobInvoice], jObs, "transport error")
  /\ UNCHANGED <<now, creds, recent, otherWrites, decisions, jValid,
                 besidesProc>>

\* the clock runs to the instant the queue's backoff is over
JobBackoffElapses ==
  /\ jPc = "backoff"
  /\ now < jWake
  /\ now' = jWake
  /\ UNCHANGED <<worldVars, procVars, besidesProc>>

\* ------------------------------------------------------------ periodic poller
\* startPeriodicPoller(intervalMs = 60000)
PollerInterval == 60000

\* HKA_LIMITS.RESPONSE_TIMEOUT_MS: how long a status query can be outstanding
QueryTimeout == 60000

\* a pollDocumentStatus call that has ended
LoopDone == [pc |-> "done", attemptCount |-> 0, start |-> 0, wake |-> 0,
             asked |-> 0]

\* one pass of the loop body of pollDocumentStatus(invoice.id, 3), up to the
\* await of estadoDocumento
LoopHead(attemptCount, start) ==
  LET status == findUnique(PolledInvoice)
  IN  IF \/ OverBudget(now - start)
         \/ MissingRecord(status)
         \/ IsFinal(status)
         \/ creds # "configured"
      THEN LoopDone
      ELSE [pc |-> "querying", attemptCount |-> attemptCount, start |-> start,
            wake |-> 0, asked |-> now]

\* pollPendingInvoices: findMany({ status: 'PROCESSING', ... }) and one
\* pollDocumentStatus(invoice.id, 3) per record found
pollPendingInvoices ==
  IF findUnique(PolledInvoice) = "PROCESSING"
  THEN Append(tLoops, LoopHead(0, now))
  ELSE tLoops

Running(loops) == {k \in DOMAIN loops : loops[k].pc # "done"}

\* `await poll()` has resolved: setInterval(poll, intervalMs)
Armed(loops) ==
  IF tPc = "first" /\ Running(loops) = {}
  THEN /\ tPc' = "interval"
       /\ tNextTick' = now + PollerInterval
  ELSE UNCHANGED <<tPc, tNextTick>>

\* startPeriodicPoller is called: the first poll runs at once
StartPeriodicPoller ==
  /\ tPc = "stopped"
  /\ tLoops' = pollPendingInvoices
  /\ IF Running(pollPendingInvoices) = {}
     THEN /\ tPc' = "interval"
          /\ tNextTick' = now + PollerInterval
     ELSE /\ tPc' = "first"
          /\ UNCHANGED tNextTick
  /\ UNCHANGED <<now, worldVars, tTicks, besidesPeriodic>>

\* setInterval fires: poll() again, whatever the earlier polls are doing
PeriodicTick ==
  /\ tPc = "interval"
  /\ now >= tNextTick
  /\ tTicks < MaxTicks
  /\ tTicks' = tTicks + 1
  /\ tNextTick' = tNextTick + PollerInterval
  /\ tLoops' = pollPendingInvoices
  /\ UNCHANGED <<now, worldVars, tPc, besidesPeriodic>>

\* attemptCount++ and the wait of getNextInterval(attemptCount)
LoopWaits(l) ==
  [l EXCEPT !.pc = "sleeping", !.attemptCount = @ + 1,
            !.wake = now + getNextInterval(l.attemptCount + 1)]

\* the query of the k-th poll is answered
LoopQueryReturns(k) ==
  /\ k \in DOMAIN tLoops
  /\ tLoops[k].pc = "querying"
  /\ LET estado == remote[PolledInvoice]
         loops == IF estado = "ACEPTADO" \/ estado = "RECHAZADO"
                  THEN [tLoops EXCEPT ![k] = LoopDone]
                  ELSE [tLoops EXCEPT ![k] = LoopWaits(@)]
     IN  /\ tLoops' = loops
         /\ local' = IF estado = "ACEPTADO" \/ estado = "RECHAZADO"
                     THEN [local EXCEPT ![PolledInvoice] =
                             IF estado = "ACEPTADO" THEN "AUTHORIZED"
                                                    ELSE "REJECTED"]
                     ELSE local
         /\ Armed(loops)
  /\ UNCHANGED <<now, creds, remote, recent, otherWrites, decisions, tTicks,
                 besidesPeriodic>>

\* the query of the k-th poll fails
LoopQueryFails(k) ==
  /\ k \in DOMAIN tLoops
  /\ tLoops[k].pc = "querying"
  /\ tLoops' = [tLoops EXCEPT ![k] = LoopWaits(@)]
  /\ UNCHANGED <<now, worldVars, tPc, tNextTick, tTicks, besidesPeriodic>>

\* the wait of the k-th poll is over: the loop condition, then the next pass
LoopResumes(k) ==
  /\ k \in DOMAIN tLoops
  /\ tLoops[k].pc = "sleeping"
  /\ now >= tLoops[k].wake
  /\ LET loops == [tLoops EXCEPT ![k] =
                     IF @.attemptCount < BatchMaxAttempts
                     THEN LoopHead(@.attemptCount, @.start)
                     ELSE LoopDone]
     IN  /\ tLoops' = loops
         /\ Armed(loops)
  /\ UNCHANGED <<now, worldVars, tTicks, besidesPeriodic>>

\* the instants at which a timer fires or a query times out
Instants ==
  {tLoops[k].wake : k \in {k \in DOMAIN tLoops : tLoops[k].pc = "sleeping"}}
  \cup {tLoops[k].asked + QueryTimeout :
          k \in {k \in DOMAIN tLoops : tLoops[k].pc = "querying"}}
  \cup (IF tPc = "interval" /\ tTicks < MaxTicks THEN {tNextTick} ELSE {})

\* the clock runs to the next instant
PeriodicTimePasses ==
  /\ Instants # {}
  /\ \A t \in Instants : t > now
  /\ now' = CHOOSE t \in Instants : \A u \in Instants : t <= u
  /\ UNCHANGED <<worldVars, periodicVars, besidesPeriodic>>

\* ----------------------------------------------------------- specification
InitBreaker ==
  /\ now = 0
  /\ state = "CLOSED"
  /\ failures = 0
  /\ successes = 0
  /\ lastFailureTime = NULL
  /\ nextAttemptTime = NULL
  /\ failureTimestamps = <<>>
  /\ totalRequests = 0
  /\ totalFailures = 0
  /\ totalSuccesses = 0
  /\ pc = [c \in Callers |-> "idle"]
  /\ invocations = 0
  /\ baseCalls = 0
  /\ ev = [kind |-> "init", from |-> "CLOSED", who |-> "caller"]
  /\ burst = <<>>
  /\ hoSeen = 0

InitExecIdle ==
  /\ xPc = "idle"
  /\ xMethod = "Enviar"
  /\ xAttempts = 0
  /\ xStartTime = 0
  /\ xWake = NULL
  /\ metrics = <<>>
  /\ xOutcome = [kind |-> "none", error |-> NoFailure]
  /\ xObs = [calls |-> 0, executes |-> 0, ops |-> 0, waits |-> <<>>,
             caught |-> <<>>, recorded |-> 0]

\* no stored record, no document at the authority
InitWorldEmpty ==
  /\ local = <<>>
  /\ creds = "configured"
  /\ remote = <<>>
  /\ recent = {}
  /\ otherWrites = 0
  /\ decisions = 0

InitReconIdle ==
  /\ rPc = "idle"
  /\ rSelected = <<>>
  /\ rNext = 0
  /\ rRec = [i \in Invoices |-> NotReconciled]
  /\ report = EmptyReport
  /\ rWake = NULL
  /\ audit = [fix |-> 0, run |-> 0]
  /\ rObs = [runs |-> 0, queries |-> NoCounts, writes |-> NoCounts,
             batches |-> 0, failures |-> 0, decisionsAtStart |-> 0,
             otherWritesAtStart |-> 0, fixesAtStart |-> 0]

InitPollIdle ==
  /\ pPc = "idle"
  /\ pMaxAttempts = DefaultMaxAttempts
  /\ pAttemptCount = 0
  /\ pStartTime = 0
  /\ pWake = NULL
  /\ pResult = [kind |-> "none", status |-> "(none)", message |-> "(none)",
                pollCount |-> 0, totalTime |-> 0]
  /\ pObs = [calls |-> 0, iterations |-> 0, queries |-> 0, failed |-> 0,
             waits |-> <<>>, writes |-> 0, seen |-> "(unread)"]

\* the components built on the breaker and the classifier, not running
NoJob ==
  [attempts |-> 0, enviarCalls |-> 0, accepted |-> 0, rejected |-> 0,
   storeFailures |-> 0, transitions |-> {}, ended |-> "(none)"]

InitProcIdle ==
  /\ jPc = "none"
  /\ jValid = TRUE
  /\ jAttemptsMade = 0
  /\ jWake = NULL
  /\ jObs = NoJob

InitPeriodicIdle ==
  /\ tPc = "stopped"
  /\ tLoops = <<>>
  /\ tNextTick = NULL
  /\ tTicks = 0

InitAppIdle ==
  /\ InitExecIdle
  /\ InitWorldEmpty
  /\ InitPollIdle
  /\ InitReconIdle
  /\ InitProcIdle
  /\ InitPeriodicIdle

InitErrIdle ==
  /\ raw = NoFailure
  /\ classified = NotYet
  /\ rsError = NoFailure
  /\ rsAttempt = 0
  /\ strategy = NotYet
  /\ errPc = "idle"

\* DEFAULT_HKA_CIRCUIT_CONFIG, in units of 30 s, failureThreshold 5 as 2
SmallDefaultConfig ==
  [failureThreshold |-> 2, successThreshold |-> 2, timeout |-> 2,
   monitoringPeriod |-> 2]

\* the breaker under concurrent callers, and the components' remote calls
Init ==
  /\ InitBreaker
  /\ config \in Configs
  /\ InitErrIdle
  /\ InitAppIdle

Next ==
  \/ \E c \in Callers : ExecuteCall(c)
  \/ \E c \in Callers : OperationSucceeds(c)
  \/ \E c \in Callers : OperationFails(c)
  \/ Reset
  \/ \E comp \in Components : ComponentRemoteCall(comp)
  \/ Tick

Spec == Init /\ [][Next]_vars

\* classifyHKAError applied to every raw failure
InitClassify ==
  /\ InitBreaker
  /\ config = SmallDefaultConfig
  /\ raw \in RawFailures
  /\ classified = NotYet
  /\ rsError = NoFailure
  /\ rsAttempt = 0
  /\ strategy = NotYet
  /\ errPc = "input"
  /\ InitAppIdle

NextClassify == Classify

SpecClassify == InitClassify /\ [][NextClassify]_vars

\* getRetryStrategy applied to every error and attempt number
InitRetry ==
  /\ InitBreaker
  /\ config = SmallDefaultConfig
  /\ raw = NoFailure
  /\ classified = NotYet
  /\ rsError \in HKAErrors
  /\ rsAttempt \in 0..MaxAttempt
  /\ strategy = NotYet
  /\ errPc = "input"
  /\ InitAppIdle

NextRetry == Decide

SpecRetry == InitRetry /\ [][NextRetry]_vars

\* executeWithProtection over its breaker, one call after another
InitExec ==
  /\ InitBreaker
  /\ config \in ExecConfigs
  /\ InitErrIdle
  /\ InitAppIdle

\* pollDocumentStatus on one document, the authority and the other writers
InitPoller ==
  /\ InitBreaker
  /\ config = DEFAULT_HKA_CIRCUIT_CONFIG
  /\ InitErrIdle
  /\ InitExecIdle
  /\ InitPollIdle
  /\ InitReconIdle
  /\ InitProcIdle
  /\ InitPeriodicIdle
  /\ local \in {<<>>} \cup [{PolledInvoice} -> PolledStatuses]
  /\ creds \in Credentials
  /\ remote \in [{PolledInvoice} -> Estados]
  /\ recent = {PolledInvoice}
  /\ otherWrites = 0
  /\ decisions = 0

NextPoller ==
  \/ \E m \in {BatchMaxAttempts, DefaultMaxAttempts} : PollStart(m)
  \/ PollQueryReturns
  \/ PollQueryFails
  \/ PollResume
  \/ PollSleepElapses
  \/ \E e \in {"ACEPTADO", "RECHAZADO"} : AuthorityDecides(PolledInvoice, e)
  \/ \E st \in {"AUTHORIZED", "REJECTED"} :
       StoreWrittenElsewhere(PolledInvoice, st)

SpecPoller == InitPoller /\ [][NextPoller]_vars

\* runReconciliation over a store of documents that were submitted and are
\* in process, the authority and the other writers
InitRecon ==
  /\ InitBreaker
  /\ config = DEFAULT_HKA_CIRCUIT_CONFIG
  /\ InitErrIdle
  /\ InitExecIdle
  /\ InitPollIdle
  /\ InitReconIdle
  /\ InitProcIdle
  /\ InitPeriodicIdle
  /\ \E n \in {3, MaxInvoices} :
       /\ local = [i \in 1..n |-> "PROCESSING"]
       /\ remote = [i \in 1..n |-> "EN_PROCESO"]
       /\ recent \in {1..n, 2..n, {}}
  /\ creds \in Credentials
  /\ otherWrites = 0
  /\ decisions = 0

NextRecon ==
  \/ RunStart
  \/ RunEmpty
  \/ BatchStart
  \/ AuthorityAnswers
  \/ RecAnswer
  \/ RecQueryFails
  \/ BatchSettled
  \/ ReconDelayElapses
  \/ \E i \in Drifting, e \in {"ACEPTADO", "RECHAZADO", "ANULADO"} :
       AuthorityDecides(i, e)
  \/ \E st \in {"AUTHORIZED", "REJECTED", "FAILED", "CANCELLED"} :
       StoreWrittenElsewhere(HandledElsewhere, st)

SpecRecon == InitRecon /\ [][NextRecon]_vars

\* an estado the answer may carry that hkaToLocalStatus has no key for:
\* estadoDocumento passes `response.estado || response.Estado` on as it is
UnmappedEstado == "NO_ENCONTRADO"

\* runReconciliation over a store where the first record was read while the
\* worker was taking its job (still QUEUED, the document in process at the
\* authority) and the second document has a status without a local mapping
InitReconUnsettled ==
  /\ InitBreaker
  /\ config = DEFAULT_HKA_CIRCUIT_CONFIG
  /\ InitErrIdle
  /\ InitExecIdle
  /\ InitPollIdle
  /\ InitReconIdle
  /\ InitProcIdle
  /\ InitPeriodicIdle
  /\ \E n \in {3, MaxInvoices} :
       /\ local = [i \in 1..n |->
                     IF i = HandledElsewhere THEN "QUEUED" ELSE "PROCESSING"]
       /\ remote = [i \in 1..n |->
                      IF i = 2 THEN UnmappedEstado ELSE "EN_PROCESO"]
       /\ recent \in {1..n, 2..n, {}}
  /\ creds \in Credentials
  /\ otherWrites = 0
  /\ decisions = 0

SpecReconUnsettled == InitReconUnsettled /\ [][NextRecon]_vars

\* one process-invoice job of the queue for a QUEUED invoice
InitProc ==
  /\ InitBreaker
  /\ config = DEFAULT_HKA_CIRCUIT_CONFIG
  /\ InitErrIdle
  /\ InitExecIdle
  /\ InitPollIdle
  /\ InitReconIdle
  /\ InitPeriodicIdle
  /\ local = [i \in {JobInvoice} |-> "QUEUED"]
  /\ remote = <<>>
  /\ recent = {JobInvoice}
  /\ creds \in Credentials
  /\ otherWrites = 0
  /\ decisions = 0
  /\ jPc = "waiting"
  /\ jValid \in BOOLEAN
  /\ jAttemptsMade = 0
  /\ jWake = NULL
  /\ jObs = NoJob

NextProc ==
  \/ JobStart
  \/ \E answer \in EnviarAnswers, auditWritten \in BOOLEAN :
       EnviarReturns(answer, auditWritten)
  \/ \E delivered \in BOOLEAN : EnviarThrows(delivered)
  \/ JobBackoffElapses

SpecProc == InitProc /\ [][NextProc]_vars

\* startPeriodicPoller over a store with one document in process
InitPeriodic ==
  /\ InitBreaker
  /\ config = DEFAULT_HKA_CIRCUIT_CONFIG
  /\ InitErrIdle
  /\ InitExecIdle
  /\ InitPollIdle
  /\ InitReconIdle
  /\ InitProcIdle
  /\ InitPeriodicIdle
  /\ local \in [{PolledInvoice} -> {"PROCESSING", "AUTHORIZED"}]
  /\ remote \in [{PolledInvoice} -> {"EN_PROCESO", "ACEPTADO"}]
  /\ recent = {PolledInvoice}
  /\ creds \in Credentials
  /\ otherWrites = 0
  /\ decisions = 0

NextPeriodic ==
  \/ StartPeriodicPoller
  \/ PeriodicTick
  \/ \E k \in 1..(MaxTicks + 1) : LoopQueryReturns(k)
  \/ \E k \in 1..(MaxTicks + 1) : LoopQueryFails(k)
  \/ \E k \in 1..(MaxTicks + 1) : LoopResumes(k)
  \/ PeriodicTimePasses
  \/ \E e \in {"ACEPTADO", "RECHAZADO"} : AuthorityDecides(PolledInvoice, e)

SpecPeriodic == InitPeriodic /\ [][NextPeriodic]_vars

\* the metrics of n earlier calls that returned at their first attempt, the
\* i-th after i ms
EarlierMetrics(n) ==
  [i \in 1..n |-> Metric("EstadoDocumento", i, TRUE, NoError, 1)]

\* how many calls the client has served before: the buffer is about to fill
EarlierCalls == (MetricsCapacity - 2)..MetricsCapacity

\* executeWithProtection on a client that has served EarlierCalls calls, all
\* successful, through its default breaker
InitMetrics ==
  /\ \E n \in EarlierCalls :
       /\ metrics = EarlierMetrics(n)
       /\ totalRequests = n
       /\ totalSuccesses = n
       /\ invocations = n
  /\ now = 0
  /\ state = "CLOSED"
  /\ failures = 0
  /\ successes = 0
  /\ lastFailureTime = NULL
  /\ nextAttemptTime = NULL
  /\ failureTimestamps = <<>>
  /\ totalFailures = 0
  /\ pc = [c \in Callers |-> "idle"]
  /\ baseCalls = 0
  /\ ev = [kind |-> "init", from |-> "CLOSED", who |-> "caller"]
  /\ burst = <<>>
  /\ hoSeen = 0
  /\ config = DEFAULT_HKA_CIRCUIT_CONFIG
  /\ InitErrIdle
  /\ xPc = "idle"
  /\ xMethod = "EstadoDocumento"
  /\ xAttempts = 1
  /\ xStartTime = 0
  /\ xWake = NULL
  /\ xOutcome = [kind |-> "returned", error |-> NoFailure]
  /\ xObs = [calls |-> 0, executes |-> 0, ops |-> 0, waits |-> <<>>,
             caught |-> <<>>, recorded |-> 0]
  /\ InitWorldEmpty
  /\ InitPollIdle
  /\ InitReconIdle
  /\ InitProcIdle
  /\ InitPeriodicIdle

NextExec ==
  \/ \E m \in Methods : ExecStart(m)
  \/ ExecRetry
  \/ ExecOpSucceeds
  \/ \E f \in ExecFailures : ExecOpFails(f)
  \/ SleepElapses
  \/ IdleTimePasses

SpecExec == InitExec /\ [][NextExec]_vars

SpecMetrics == InitMetrics /\ [][NextExec]_vars

\* ------------------------------------------------------------------ claims
\* number of failures of the current burst that lie inside the monitoring
\* period when seen from time t
InWindowCount(log, t) ==
  Cardinality({i \in DOMAIN log : t - log[i] < config.monitoringPeriod})

Awaiting == {c \in Callers : pc[c] = "awaiting"}

\* C1: while the breaker is OPEN and now < nextAttemptTime, every execute
\* call is refused with CircuitBreakerOpenError and the wrapped operation is
\* not invoked (the invocation counter keeps its value, nothing is awaited).
C1_OpenRejectsWithoutInvoking ==
  [][(state = "OPEN" /\ nextAttemptTime # NULL /\ now < nextAttemptTime
      /\ totalRequests' # totalRequests)
     => (invocations' = invocations /\ pc' = pc /\ state' = "OPEN"
         /\ ev'.kind = "rejected")]_vars

\* two execute calls in a row refused by the OPEN breaker
C1_Witness ==
  /\ ev.kind = "rejected"
  /\ state = "OPEN"
  /\ now < nextAttemptTime
  /\ totalRequests - invocations >= 2

\* C2: from CLOSED, an operation failure opens the breaker exactly when it
\* brings the number of failures of the burst inside one monitoringPeriod to
\* failureThreshold (the count was failureThreshold - 1 before it), it then
\* sets nextAttemptTime = now + timeout, and nothing but such a failure makes
\* the transition CLOSED -> OPEN (so it is made once per burst).
C2_BurstOpensOnce ==
  [][/\ (state = "CLOSED" /\ totalFailures' # totalFailures)
        => IF InWindowCount(burst', now) >= config.failureThreshold
           THEN /\ state' = "OPEN"
                /\ nextAttemptTime' = now + config.timeout
                /\ InWindowCount(burst, now) = config.failureThreshold - 1
           ELSE /\ state' = "CLOSED"
                /\ nextAttemptTime' = nextAttemptTime
     /\ (state = "CLOSED" /\ state' = "OPEN")
        => totalFailures' = totalFailures + 1]_vars

\* the breaker was opened from CLOSED by a burst that began with a failure
\* which had left the monitoring period by then
C2_Witness ==
  /\ ev.kind = "failure"
  /\ ev.from = "CLOSED"
  /\ state = "OPEN"
  /\ nextAttemptTime = now + config.timeout
  /\ config.failureThreshold >= 2
  /\ Len(burst) > config.failureThreshold

\* C3: an execute call on an OPEN breaker at a time >= nextAttemptTime moves
\* it to HALF_OPEN with successes = 0 and invokes the operation; a failure
\* of an operation while HALF_OPEN moves it to OPEN with
\* nextAttemptTime = now + timeout whatever the failure window holds.
C3_TrialAndReopen ==
  [][/\ (state = "OPEN" /\ now >= nextAttemptTime
         /\ totalRequests' # totalRequests)
        => (state' = "HALF_OPEN" /\ successes' = 0
            /\ invocations' = invocations + 1
            /\ Cardinality(Awaiting') = Cardinality(Awaiting) + 1)
     /\ (state = "HALF_OPEN" /\ totalFailures' # totalFailures)
        => (state' = "OPEN" /\ nextAttemptTime' = now + config.timeout)]_vars

\* a trial failed in HALF_OPEN with fewer than failureThreshold failures in
\* the window, and the breaker is OPEN again
C3_Witness ==
  /\ ev.kind = "failure"
  /\ ev.from = "HALF_OPEN"
  /\ state = "OPEN"
  /\ nextAttemptTime = now + config.timeout
  /\ Len(failureTimestamps) < config.failureThreshold

\* C4: a success in HALF_OPEN leaves the breaker HALF_OPEN while fewer than
\* successThreshold successes were seen since HALF_OPEN was entered, and
\* closes it, with an empty failure window, exactly when that number
\* reaches successThreshold.
C4_ClosesAtSuccessThreshold ==
  [][(state = "HALF_OPEN" /\ totalSuccesses' # totalSuccesses)
     => /\ hoSeen' <= config.successThreshold
        /\ (hoSeen' < config.successThreshold) => state' = "HALF_OPEN"
        /\ (hoSeen' = config.successThreshold)
             => (state' = "CLOSED" /\ failureTimestamps' = <<>>)]_vars

\* successThreshold = 2: the second success in HALF_OPEN closed the breaker
C4_Witness ==
  /\ config.successThreshold = 2
  /\ ev.kind = "success"
  /\ ev.from = "HALF_OPEN"
  /\ hoSeen = 2
  /\ state = "CLOSED"

\* C5 as stated: nextAttemptTime is non-null if and only if state is OPEN.
C5_NextAttemptIffOpen ==
  (nextAttemptTime # NULL) <=> (state = "OPEN")

\* C5, amended: nextAttemptTime is non-null whenever state is OPEN, and is
\* null only in CLOSED; it keeps its last value in HALF_OPEN and after the
\* breaker closes, until reset() clears it.
C5_NextAttemptSetOnceOpened ==
  /\ (state = "OPEN") => (nextAttemptTime # NULL)
  /\ (nextAttemptTime = NULL) => (state = "CLOSED")

\* the breaker has closed again after a trial and still holds the
\* nextAttemptTime of its last opening
C5_Witness ==
  /\ ev.kind = "success"
  /\ ev.from = "HALF_OPEN"
  /\ state = "CLOSED"
  /\ nextAttemptTime # NULL

\* C6: while the breaker is HALF_OPEN and an operation is outstanding, a
\* further execute call does not invoke its operation, so at most one wrapped
\* operation is in flight in HALF_OPEN.
C6_SingleTrialInHalfOpen ==
  [][(state = "HALF_OPEN" /\ Awaiting # {} /\ totalRequests' # totalRequests)
     => (invocations' = invocations
         /\ Cardinality(Awaiting') <= 1)]_vars

\* C7: no remote operation of any component (processor, poller,
\* reconciliation) is invoked while the tenant's breaker is OPEN and its
\* timeout has not elapsed.
C7_AllRemoteCallsGated ==
  [][(state = "OPEN" /\ nextAttemptTime # NULL /\ now < nextAttemptTime)
     => (baseCalls' = baseCalls /\ invocations' = invocations)]_vars

\* C8: classifyHKAError returns a classified error for every raw failure and
\* never throws.
C8_ClassifyTotal ==
  (errPc = "done" /\ raw \in RawFailures) => (classified.threw = FALSE)

\* C9: for every failure whose extracted code (code, else response.codigo,
\* else response.code, else the failure itself when it is a string) is a key
\* of the catalog, classifyHKAError returns that entry's category, severity,
\* retryable and requiresManualIntervention whatever the message text; and
\* the catalog's AUTHENTICATION, VALIDATION and BUSINESS_RULE entries are not
\* retryable, AUTHENTICATION entries need manual intervention, VALIDATION
\* entries do not, NETWORK entries are retryable.
C9_CatalogDecides ==
  /\ (errPc = "done" /\ raw \in RawFailures
      /\ raw.kind \notin {"null", "undefined"})
     => LET given(v) == v \notin {UNDEF, ""}
            code ==
              IF raw.kind = "string"
              THEN IF Len(raw.str) = 1 THEN raw.str[1] ELSE UNDEF
              ELSE IF given(raw.code) THEN raw.code
              ELSE IF given(raw.response.codigo) THEN raw.response.codigo
              ELSE raw.response.code
        IN  code \in CatalogCodes
            => /\ classified.threw = FALSE
               /\ classified.category = ERROR_CATALOG[code].category
               /\ classified.severity = ERROR_CATALOG[code].severity
               /\ classified.retryable = ERROR_CATALOG[code].retryable
               /\ classified.requiresManualIntervention
                    = ERROR_CATALOG[code].requiresManualIntervention
  /\ \A k \in CatalogCodes :
       LET entry == ERROR_CATALOG[k]
       IN  /\ entry.category \in {"AUTHENTICATION", "VALIDATION",
                                  "BUSINESS_RULE"} => ~entry.retryable
           /\ entry.category = "AUTHENTICATION"
                => entry.requiresManualIntervention
           /\ entry.category = "VALIDATION"
                => ~entry.requiresManualIntervention
           /\ entry.category = "NETWORK" => entry.retryable

\* an Error with a catalog code of category AUTHENTICATION whose text speaks
\* of a timeout was classified by its code
C9_Witness ==
  /\ errPc = "done"
  /\ raw \in RawFailures
  /\ raw.kind = "Error"
  /\ raw.code = "ERR_001"
  /\ raw.response.codigo = "ETIMEDOUT"
  /\ Includes(ToLowerCase(raw.message), "timeout")
  /\ classified.category = "AUTHENTICATION"

\* C10: getRetryStrategy(error, attempt) returns, for a retryable NETWORK or
\* SYSTEM error, shouldRetry = true, maxRetries = 5 and
\* delayMs = 2000 * 2^attempt for attempt 0..4 and shouldRetry = false for
\* attempt >= 5; for a non-retryable error {false, 0, 0} for every attempt;
\* for a retryable error of another category shouldRetry = false.
C10_RetryStrategyTable ==
  (errPc = "done" /\ rsError \in HKAErrors)
  => LET backoff == rsError.category \in {"NETWORK", "SYSTEM"}
     IN  /\ (rsError.retryable /\ backoff /\ rsAttempt \in 0..4)
            => strategy = [shouldRetry |-> TRUE,
                           delayMs |-> 2000 * (2 ^ rsAttempt),
                           maxRetries |-> 5]
         /\ (rsError.retryable /\ backoff /\ rsAttempt >= 5)
            => strategy.shouldRetry = FALSE
         /\ ~rsError.retryable
            => strategy = [shouldRetry |-> FALSE, delayMs |-> 0,
                           maxRetries |-> 0]
         /\ (rsError.retryable /\ ~backoff)
            => strategy.shouldRetry = FALSE

\* the last retry of a retryable NETWORK error waits 32000 ms
C10_Witness ==
  /\ errPc = "done"
  /\ rsError \in HKAErrors
  /\ rsError.retryable
  /\ rsError.category = "NETWORK"
  /\ rsAttempt = 4
  /\ strategy.shouldRetry
  /\ strategy.delayMs = 32000

\* C11: when circuitBreaker.execute throws CircuitBreakerOpenError the call
\* of executeWithProtection ends in that very step: that error is rethrown,
\* no delay is started and the operation is not invoked, whatever the
\* attempt number and whatever was caught before.
C11_OpenErrorEndsCall ==
  [][(ev'.kind = "rejected" /\ totalRequests' # totalRequests)
     => /\ xPc' = "idle"
        /\ xOutcome' = [kind |-> "threw", error |-> OpenError]
        /\ xWake' = NULL
        /\ xObs'.waits = (IF xPc = "sleeping" THEN xObs.waits ELSE <<>>)
        /\ invocations' = invocations]_vars

\* a retry of a call met the open breaker
C11_Witness ==
  /\ xPc = "idle"
  /\ xOutcome = [kind |-> "threw", error |-> OpenError]
  /\ xObs.executes > 1
  /\ xObs.ops = xObs.executes - 1

\* the latest metric
LastMetric == metrics[Len(metrics)]

\* C12: every call of executeWithProtection appends exactly one metric, at
\* its end (return, breaker open, retries refused or used up) and none while
\* attempts are being retried; the metric of a successful call records the
\* number of times the operation was invoked, that of a failed call the
\* number of attempts.
C12_OneMetricPerCall ==
  /\ xPc # "idle" => xObs.recorded = 0 /\ Len(metrics) = xObs.calls - 1
  /\ (xPc = "idle" /\ xObs.calls > 0)
       => /\ xObs.recorded = 1
          /\ Len(metrics) = xObs.calls
          /\ LastMetric.method = xMethod
          /\ LastMetric.success = (xOutcome.kind = "returned")
          /\ xOutcome.kind = "returned" => LastMetric.attempts = xObs.ops
          /\ xOutcome.kind = "threw" => LastMetric.attempts = xObs.executes

\* a second call returned after two retried attempts
C12_Witness ==
  /\ xPc = "idle"
  /\ xObs.calls = 2
  /\ xOutcome.kind = "returned"
  /\ Len(xObs.waits) = 2
  /\ LastMetric.attempts = 3

\* the failure is one getRetryStrategy lets retry
Retryable(e) ==
  LET c == classifyHKAError(e)
  IN  ~c.threw /\ c.retryable /\ c.category \in {"NETWORK", "SYSTEM"}

\* C13: one call of executeWithProtection calls circuitBreaker.execute at
\* most maxRetries + 1 = 6 times; the k-th delay it waits is
\* baseDelay * 2^(k-1) (2000 ... 32000 ms), each after a retryable failure;
\* a non-retryable failure is the last attempt of its call, so a call whose
\* first failure is non-retryable makes exactly one attempt and throws it.
C13_RetryLoopBounded ==
  /\ xObs.executes <= maxRetries + 1
  /\ Len(xObs.waits) <= maxRetries
  /\ \A k \in DOMAIN xObs.waits :
       /\ xObs.waits[k] = baseDelay * Pow2(k - 1)
       /\ Retryable(xObs.caught[k])
  /\ \A k \in DOMAIN xObs.caught :
       ~Retryable(xObs.caught[k])
         => /\ k = Len(xObs.caught)
            /\ xPc = "idle"
            /\ xOutcome = [kind |-> "threw", error |-> xObs.caught[k]]
            /\ xObs.executes = k
  /\ xPc = "sleeping" => xWake = xStartTime + 2 * xObs.waits[Len(xObs.waits)]
                                   - baseDelay
  /\ xObs.executes = maxRetries + 1 => xPc # "sleeping"

\* six failed invocations of the operation, five growing delays, then throw
C13_Witness ==
  /\ xPc = "idle"
  /\ xOutcome.kind = "threw"
  /\ xObs.ops = 6
  /\ xObs.waits = <<2000, 4000, 8000, 16000, 32000>>
  /\ \A k \in DOMAIN xObs.caught : Retryable(xObs.caught[k])

\* the n-th element of the wait schedule, counted from 1, capped beyond it
ScheduledWait(n) ==
  IF n <= Len(POLLING_INTERVALS) THEN POLLING_INTERVALS[n]
  ELSE MAX_POLLING_INTERVAL

RECURSIVE SumSeq(_)
SumSeq(q) == IF q = <<>> THEN 0 ELSE Head(q) + SumSeq(Tail(q))

\* the poll ended on a final status reported by a query
EndedOnReport ==
  /\ pPc = "idle"
  /\ pResult.kind = "returned"
  /\ pResult.message = "(mensaje)"

\* queries and store writes of the running poll before this step
QueriesBefore == IF pPc = "idle" THEN 0 ELSE pObs.queries

WritesBefore == IF pPc = "idle" THEN 0 ELSE pObs.writes

\* C14: the wait that precedes query n+1 of pollDocumentStatus is the n-th
\* element of [5000, 10000, 30000, 60000, 120000, 300000] (300000 beyond
\* it); when the fourth query is the first to report a final status, the
\* result has pollCount = 4 and the waits before it add up to
\* 5000 + 10000 + 30000 ms.
C14_WaitsFollowSchedule ==
  /\ \A n \in DOMAIN pObs.waits : pObs.waits[n] = ScheduledWait(n)
  /\ (EndedOnReport /\ pObs.queries = 4)
       => /\ pResult.pollCount = 4
          /\ SumSeq(pObs.waits) = 5000 + 10000 + 30000

\* C15 as stated: pollDocumentStatus makes at most maxAttempts queries, a
\* TIMEOUT result has pollCount = maxAttempts, and no query starts once the
\* elapsed time exceeds MAX_POLLING_TIME.
C15_TimeoutCountsMaxAttempts ==
  /\ [](pObs.queries <= pMaxAttempts)
  /\ []((pPc = "idle" /\ pResult.kind = "returned"
         /\ pResult.status = "TIMEOUT")
        => pResult.pollCount = pMaxAttempts)
  /\ [][pObs'.queries > QueriesBefore
        => ~(now - pStartTime' > MAX_POLLING_TIME)]_vars

\* C15, amended: pollDocumentStatus makes at most maxAttempts queries; once
\* maxAttempts queries were made and none reported a final status it
\* returns TIMEOUT with pollCount = maxAttempts; a pass of the loop that
\* starts with the elapsed time above MAX_POLLING_TIME starts no query and
\* returns TIMEOUT with pollCount = the queries made so far, fewer than
\* maxAttempts.
C15_AttemptCapAndTimeBudget ==
  /\ [](pObs.queries <= pMaxAttempts)
  /\ []((pPc = "idle" /\ pResult.kind \in {"returned", "threw"}
         /\ pObs.queries = pMaxAttempts /\ ~EndedOnReport)
        => /\ pResult.kind = "returned"
           /\ pResult.status = "TIMEOUT"
           /\ pResult.message = "Max polling attempts reached"
           /\ pResult.pollCount = pMaxAttempts)
  /\ [][pObs'.iterations # pObs.iterations
        => IF now - pStartTime' > MAX_POLLING_TIME
           THEN /\ pObs'.queries = QueriesBefore
                /\ pPc' = "idle"
                /\ pResult'.kind = "returned"
                /\ pResult'.status = "TIMEOUT"
                /\ pResult'.pollCount = QueriesBefore
                /\ pResult'.pollCount < pMaxAttempts'
           ELSE TRUE]_vars

\* the time budget ended a poll of the default 20 attempts after 16 queries
C15_Witness ==
  /\ pPc = "idle"
  /\ pMaxAttempts = DefaultMaxAttempts
  /\ pResult.kind = "returned"
  /\ pResult.message = "Polling timeout exceeded"
  /\ pResult.pollCount = 16
  /\ pObs.queries = 16

\* C16 as stated: pollDocumentStatus never ends by throwing.
C16_NeverThrows == pResult.kind # "threw"

\* C16, amended: a failed query never ends the poll (the catch block waits
\* and goes on); a poll that ends returns ACEPTADO, RECHAZADO or TIMEOUT, or
\* throws, and it throws exactly when findUnique found no record or when
\* the record is not final and the credentials are not configured or
\* cannot be decrypted.
C16_ThrowsOnlyWithoutRecordOrCredentials ==
  /\ [](pResult.kind = "returned"
        => pResult.status \in {"ACEPTADO", "RECHAZADO", "TIMEOUT"})
  /\ [](pResult.kind = "threw"
        => \/ /\ pResult.message = "Invoice not found"
              /\ pObs.seen = NoRecord
           \/ /\ pResult.message = "HKA credentials not configured"
              /\ pObs.seen \in PolledStatuses
              /\ pObs.seen \notin {"AUTHORIZED", "REJECTED"}
              /\ creds = "absent"
           \/ /\ pResult.message = "decrypt failed"
              /\ pObs.seen \in PolledStatuses
              /\ pObs.seen \notin {"AUTHORIZED", "REJECTED"}
              /\ creds = "undecryptable")
  /\ [][pObs'.failed > pObs.failed
        => pPc' = "sleeping" /\ pResult' = pResult]_vars
  /\ [][(pObs'.iterations # pObs.iterations
         /\ ~(now - pStartTime' > MAX_POLLING_TIME))
        => /\ findUnique(PolledInvoice) = NoRecord
              => pResult'.kind = "threw"
           /\ (findUnique(PolledInvoice) = "PROCESSING"
               /\ creds # "configured")
              => pResult'.kind = "threw"]_vars

\* the poll of a record whose tenant has no credentials threw
C16_Witness ==
  /\ pPc = "idle"
  /\ pResult.kind = "threw"
  /\ pResult.message = "HKA credentials not configured"
  /\ pObs.queries = 0

\* the outcome that corresponds to a final local status
OutcomeOf(status) == IF status = "AUTHORIZED" THEN "ACEPTADO" ELSE "RECHAZADO"

\* C17 as stated: a pass of the loop that starts with the local record
\* AUTHORIZED or REJECTED returns ACEPTADO / RECHAZADO, starts no query and
\* writes nothing.
C17_FinalRecordShortCircuits ==
  [][(pObs'.iterations # pObs.iterations
      /\ findUnique(PolledInvoice) \in {"AUTHORIZED", "REJECTED"})
     => /\ pPc' = "idle"
        /\ pResult'.kind = "returned"
        /\ pResult'.status = OutcomeOf(findUnique(PolledInvoice))
        /\ pObs'.queries = QueriesBefore
        /\ pObs'.writes = WritesBefore
        /\ local' = local]_vars

\* C17, amended: a pass of the loop that starts with the local record
\* AUTHORIZED or REJECTED starts no query and writes nothing; it returns
\* ACEPTADO / RECHAZADO when the elapsed time is within MAX_POLLING_TIME,
\* and TIMEOUT when it is above.
C17_FinalRecordWithinBudget ==
  [][(pObs'.iterations # pObs.iterations
      /\ findUnique(PolledInvoice) \in {"AUTHORIZED", "REJECTED"})
     => /\ pPc' = "idle"
        /\ pResult'.kind = "returned"
        /\ pResult'.status =
             (IF now - pStartTime' > MAX_POLLING_TIME THEN "TIMEOUT"
              ELSE OutcomeOf(findUnique(PolledInvoice)))
        /\ pResult'.pollCount = QueriesBefore
        /\ pObs'.queries = QueriesBefore
        /\ pObs'.writes = WritesBefore
        /\ local' = local]_vars

\* between two passes another writer settled the record: the next pass
\* returned its outcome after the queries already made
C17_Witness ==
  /\ pPc = "idle"
  /\ pResult.kind = "returned"
  /\ pResult.message = "Status already finalized"
  /\ pResult.status = "RECHAZADO"
  /\ pObs.queries = 2
  /\ pObs.writes = 0

\* a run of runReconciliation has returned its report
RunReturned == rPc = "idle" /\ rObs.runs > 0

\* the selected records whose answer, mapped, differs from the status read
Discrepant ==
  {i \in {rSelected[k] : k \in DOMAIN rSelected} :
     /\ rRec[i].answer \in Estados
     /\ hkaToLocalStatus(rRec[i].answer) # rRec[i].seen}

\* C18: runReconciliation updates the stored status of a selected record
\* exactly when the answer to its status query, mapped to a local status,
\* differs from the status read, and then writes that mapped status;
\* a record that matches is not written. A run over three records of
\* which exactly one differs and the other two match returns
\* totalChecked 3, discrepanciesFound 1, fixed 1, errors 0.
C18_WritesExactlyTheDiscrepancies ==
  /\ [][\A i \in Invoices :
          /\ rObs'.writes[i] > rObs.writes[i]
               <=> /\ rPc = "batch" /\ rPc' = "batch"
                   /\ rRec[i].pc = "querying"
                   /\ rRec'[i].pc = "done"
                   /\ rRec'[i].answer \in Estados
                   /\ hkaToLocalStatus(rRec'[i].answer) # rRec[i].seen
          /\ rObs'.writes[i] > rObs.writes[i]
               => /\ rObs'.writes[i] = rObs.writes[i] + 1
                  /\ local'[i] = hkaToLocalStatus(rRec'[i].answer)
                  /\ \A j \in DOMAIN local \ {i} : local'[j] = local[j]]_vars
  /\ [](RunReturned /\ Len(rSelected) = 3 /\ Cardinality(Discrepant) = 1
          /\ (\A k \in 1..3 : rRec[rSelected[k]].answer \in Estados)
        => /\ report.totalChecked = 3
           /\ report.discrepanciesFound = 1
           /\ report.fixed = 1
           /\ report.errors = 0
           /\ \A i \in Invoices :
                rObs.writes[i] = IF i \in Discrepant THEN 1 ELSE 0)

C18_Witness ==
  /\ RunReturned
  /\ Len(rSelected) = 3
  /\ Cardinality(Discrepant) = 1
  /\ \A k \in 1..3 : rRec[rSelected[k]].answer \in Estados
  /\ \E i \in Discrepant :
       /\ rRec[i].seen = "PROCESSING"
       /\ rRec[i].answer = "ACEPTADO"
       /\ local[i] = "AUTHORIZED"
  /\ report.fixed = 1
\* the records of the run whose processing failed: the status query of
\* "Error", the decrypt of "rejected"
FailedRecords ==
  {i \in {rSelected[k] : k \in DOMAIN rSelected} :
     rRec[i].result \in {"Error", "rejected"}}

\* C19: when a run of runReconciliation has returned, report.errors counts
\* one for every record whose processing failed (a failed status query
\* included), every selected record was processed, and the report was
\* written to the audit log once per run.
C19_FailuresCountedRunCompletes ==
  RunReturned
    => /\ report.errors = Cardinality(FailedRecords)
       /\ \A k \in DOMAIN rSelected : rRec[rSelected[k]].pc = "done"
       /\ audit.run = rObs.runs

\* nothing but the run wrote a status or changed a document at the
\* authority since the run started
QuietSinceStart ==
  /\ decisions = rObs.decisionsAtStart
  /\ otherWrites = rObs.otherWritesAtStart

\* C20: after a run of runReconciliation that returned with no failed
\* status query, with the tenant's credentials usable and nothing else
\* changing meanwhile, every stored record created within the lookback
\* window (every record of the store was submitted) has the local status
\* that its status at the authority maps to.
C20_EverySubmittedRecordRepaired ==
  (RunReturned /\ creds = "configured" /\ FailedRecords = {}
   /\ QuietSinceStart)
    => \A i \in DOMAIN local \cap recent :
         local[i] = hkaToLocalStatus(remote[i])

\* what reset() clears: the state and the counters of the current window
ResetCleared ==
  /\ state = "CLOSED"
  /\ failures = 0
  /\ successes = 0
  /\ lastFailureTime = NULL
  /\ nextAttemptTime = NULL
  /\ failureTimestamps = <<>>

\* C21 as stated: right after reset() the breaker is CLOSED and all its
\* counters are cleared, the lifetime counters totalRequests, totalFailures
\* and totalSuccesses included.
C21_ResetClearsEverything ==
  ev.kind = "reset"
    => /\ ResetCleared
       /\ totalRequests = 0 /\ totalFailures = 0 /\ totalSuccesses = 0

\* C21, amended: reset(), called in any state, forces CLOSED and clears
\* the failure window, failures, successes, lastFailureTime and
\* nextAttemptTime; it leaves totalRequests, totalFailures and
\* totalSuccesses as they were.
C21_ResetClearsWindowKeepsTotals ==
  [][ev'.kind = "reset"
      => /\ ResetCleared'
         /\ totalRequests' = totalRequests
         /\ totalFailures' = totalFailures
         /\ totalSuccesses' = totalSuccesses]_vars

\* reset() was called on an open breaker that had counted failures
C21_Witness ==
  /\ ev.kind = "reset"
  /\ ev.from = "OPEN"
  /\ ResetCleared
  /\ totalFailures > 0
  /\ totalRequests > totalFailures

\* C22: once processInvoice has received a rejection from Enviar for the
\* document, no later step of the job calls Enviar for it again.
C22_RejectedNeverResubmitted ==
  [][jObs.rejected > 0 => jObs'.enviarCalls = jObs.enviarCalls]_vars

\* C23: at any time at most one status query of the poller is outstanding
\* for the document, and at most one poll loop is running for it: a tick
\* of the periodic poller starts no second loop while an earlier one runs.
C23_OnePollPerDocument ==
  /\ Cardinality({k \in DOMAIN tLoops : tLoops[k].pc = "querying"}) <= 1
  /\ Cardinality(Running(tLoops)) <= 1

\* C24: the success of an operation, in whatever state the breaker is,
\* empties the failure window and zeroes the failure count; and when the
\* breaker goes from CLOSED to OPEN, the failures since the last success
\* (or reset) that lie inside the monitoring period number at least
\* failureThreshold and are exactly what the window holds.
C24_SuccessEmptiesWindow ==
  [][/\ totalSuccesses' # totalSuccesses
        => failureTimestamps' = <<>> /\ failures' = 0
     /\ (state = "CLOSED" /\ state' = "OPEN")
        => /\ InWindowCount(burst', now) >= config.failureThreshold
           /\ Len(failureTimestamps') = InWindowCount(burst', now)]_vars

\* an operation started before the breaker opened succeeded while it was
\* OPEN and emptied a window that held failures
C24_Witness ==
  /\ ev.kind = "success"
  /\ ev.from = "OPEN"
  /\ state = "OPEN"
  /\ failureTimestamps = <<>>
  /\ totalFailures >= config.failureThreshold

\* the code classifyHKAError looks up: code, else response.codigo, else
\* response.code, else the failure itself when it is a string
CodeLookedUp(e) ==
  LET given(v) == v \notin {UNDEF, ""}
  IN  CASE e.kind \in {"null", "undefined"} -> UNDEF
        [] e.kind = "string" -> IF Len(e.str) = 1 THEN e.str[1] ELSE UNDEF
        [] OTHER -> IF given(e.code) THEN e.code
                    ELSE IF given(e.response.codigo) THEN e.response.codigo
                    ELSE e.response.code

\* the lower-cased description of a failure
Description(e) ==
  IF e.kind \in {"null", "undefined"} THEN <<>>
  ELSE ToLowerCase(toStringOf(e))

\* C25: for a failure (an object or a string) whose code is not in the
\* catalog, the description
\* decides in the order timeout, network/connection, authorization:
\* timeout or network patterns give NETWORK and retryable (also when an
\* authorization pattern is present too), an authorization pattern alone
\* gives AUTHENTICATION, and no pattern gives UNKNOWN, not retryable,
\* requiring manual intervention.
C25_FallbackOrder ==
  (errPc = "done" /\ raw \in RawFailures
   /\ raw.kind \notin {"null", "undefined"}
   /\ CodeLookedUp(raw) \notin CatalogCodes)
    => LET d == Description(raw)
           has(p) == Includes(d, p)
       IN  /\ classified.threw = FALSE
           /\ IF has("timeout") \/ has("timed out")
              THEN /\ classified.code = "TIMEOUT"
                   /\ classified.category = "NETWORK"
                   /\ classified.retryable = TRUE
              ELSE IF has("network") \/ has("connection")
              THEN /\ classified.code = "NETWORK_ERROR"
                   /\ classified.category = "NETWORK"
                   /\ classified.retryable = TRUE
              ELSE IF has("auth") \/ has("unauthorized")
              THEN /\ classified.category = "AUTHENTICATION"
                   /\ classified.retryable = FALSE
              ELSE /\ classified.category = "UNKNOWN"
                   /\ classified.retryable = FALSE
                   /\ classified.requiresManualIntervention = TRUE

\* shouldTriggerCircuitBreaker
shouldTriggerCircuitBreaker(error) == error.category \in {"NETWORK", "SYSTEM"}

\* C26: only a failure classified NETWORK or SYSTEM counts toward opening
\* the breaker: when the operation of executeWithProtection fails with an
\* error of another category, the failure window is left as it was and the
\* breaker does not go from CLOSED to OPEN.
C26_OnlyNetworkSystemCount ==
  [][(xPc = "awaiting" /\ Len(xObs'.caught) = Len(xObs.caught) + 1)
     => LET classifiedError ==
              classifyHKAError(xObs'.caught[Len(xObs'.caught)])
        IN  (~classifiedError.threw
             /\ ~shouldTriggerCircuitBreaker(classifiedError))
              => /\ failureTimestamps' = failureTimestamps
                 /\ ~(state = "CLOSED" /\ state' = "OPEN")]_vars

\* C27: when executeWithProtection gives up on a failure other than
\* CircuitBreakerOpenError, what it throws is the classified error of the
\* last attempt, and the failure metric it records carries that same
\* classified error.
C27_ThrowsClassifiedError ==
  (/\ xPc = "idle"
   /\ xOutcome.kind = "threw"
   /\ xOutcome.error # OpenError
   /\ xObs.recorded = 1)
    => LET classifiedError ==
             classifyHKAError(xObs.caught[Len(xObs.caught)])
       IN  /\ LastMetric.error = classifiedError
           /\ xOutcome.error = classifiedError

\* C27 as the code has it: the failure metric carries the classified error
\* of the last attempt, and what is thrown is the error that attempt failed
\* with, as it was caught.
C27_ThrowsCaughtError ==
  (/\ xPc = "idle"
   /\ xOutcome.kind = "threw"
   /\ xOutcome.error # OpenError
   /\ xObs.recorded = 1)
    => /\ LastMetric.error = classifyHKAError(xObs.caught[Len(xObs.caught)])
       /\ xOutcome.error = xObs.caught[Len(xObs.caught)]

\* a call retried a timeout and then gave up on a refused authorization
C27_Witness ==
  /\ xPc = "idle"
  /\ xOutcome.kind = "threw"
  /\ xObs.recorded = 1
  /\ Len(xObs.waits) = 1
  /\ Len(xObs.caught) = 2
  /\ LastMetric.error.category = "AUTHENTICATION"
  /\ LastMetric.attempts = 2

\* C28: the metrics buffer never holds more than 100 entries; recording a
\* metric while it holds 100 evicts the oldest entry, and the entries that
\* stay keep their order, the new one last.
C28_MetricsBufferBounded ==
  [][LET recorded == /\ xObs'.recorded = 1
                     /\ xObs.recorded = 0 \/ xObs'.calls # xObs.calls
         newest == metrics'[Len(metrics')]
     IN  /\ metrics' # metrics => recorded
         /\ recorded
              => /\ Len(metrics) <= 100
                 /\ Len(metrics') <= 100
                 /\ Len(metrics) < 100
                      => /\ Len(metrics') = Len(metrics) + 1
                         /\ \A i \in DOMAIN metrics : metrics'[i] = metrics[i]
                 /\ Len(metrics) = 100
                      => /\ Len(metrics') = 100
                         /\ \A i \in 1..99 : metrics'[i] = metrics[i + 1]
                 /\ newest.method = xMethod'
                 /\ newest.attempts = xAttempts'
                 /\ newest.duration = now - xStartTime'
                 /\ newest.success = (xOutcome'.kind = "returned")]_vars

\* two calls on a client that had served 100: the two oldest entries are
\* gone, the third oldest is now the first
C28_Witness ==
  /\ xPc = "idle"
  /\ xObs.calls = 2
  /\ Len(metrics) = 100
  /\ metrics[1] = EarlierMetrics(100)[3]
  /\ metrics[98] = EarlierMetrics(100)[100]
  /\ metrics[100].success = FALSE

\* C29: a failed status query does not end pollDocumentStatus: the attempt
\* counter advances by one, the interval a pending answer would get at that
\* count is waited, nothing is returned or written; and when a wait is over
\* with attempts and time left, the record still in process and the
\* credentials usable, the next query is made.
C29_FailedQueryIsPending ==
  [][/\ (pPc = "querying" /\ pObs'.failed # pObs.failed)
          => /\ pObs'.failed = pObs.failed + 1
             /\ pPc' = "sleeping"
             /\ pResult' = PollPending
             /\ pAttemptCount' = pAttemptCount + 1
             /\ pAttemptCount' <= Len(POLLING_INTERVALS) - 1
                  => pWake' = now + POLLING_INTERVALS[pAttemptCount' + 1]
             /\ pAttemptCount' >= Len(POLLING_INTERVALS)
                  => pWake' = now + MAX_POLLING_INTERVAL
             /\ pObs'.writes = pObs.writes
             /\ local' = local
     /\ (/\ pPc = "sleeping"
         /\ pPc' # "sleeping"
         /\ pAttemptCount < pMaxAttempts
         /\ now - pStartTime <= MAX_POLLING_TIME
         /\ PolledInvoice \in DOMAIN local
         /\ local[PolledInvoice] = "PROCESSING"
         /\ creds = "configured")
          => /\ pPc' = "querying"
             /\ pObs'.queries = pObs.queries + 1]_vars

\* the first query failed, the second reported the final status
C29_Witness ==
  /\ EndedOnReport
  /\ pObs.failed = 1
  /\ pObs.queries = 2
  /\ pResult.pollCount = 2
  /\ pResult.status = "ACEPTADO"

\* C30: when pollDocumentStatus returns ACEPTADO or RECHAZADO on the answer
\* of a query, that step has written the record, once, with AUTHORIZED for
\* ACEPTADO and REJECTED for RECHAZADO; when it returns TIMEOUT the poll has
\* written nothing.
C30_TerminalWrittenBeforeReturn ==
  [][(/\ pPc' = "idle"
      /\ pPc # "idle" \/ pObs'.calls # pObs.calls
      /\ pResult'.kind = "returned")
       => /\ pResult'.message = "(mensaje)"
            => /\ pResult'.status \in {"ACEPTADO", "RECHAZADO"}
               /\ pResult'.status = remote[PolledInvoice]
               /\ pObs'.writes = 1
               /\ pObs.writes = 0
               /\ local'[PolledInvoice] =
                    (IF pResult'.status = "ACEPTADO" THEN "AUTHORIZED"
                                                     ELSE "REJECTED")
          /\ pResult'.status = "TIMEOUT"
            => /\ pObs'.writes = 0
               /\ local' = local
          /\ pResult'.status \in {"ACEPTADO", "RECHAZADO"}
               /\ pResult'.message # "(mensaje)"
            => /\ pObs'.writes = 0
               /\ local' = local]_vars

\* a poll that found the document in process returned RECHAZADO with the
\* record REJECTED
C30_Witness ==
  /\ EndedOnReport
  /\ pResult.status = "RECHAZADO"
  /\ pObs.seen = "PROCESSING"
  /\ pObs.writes = 1
  /\ local[PolledInvoice] = "REJECTED"

\* number of positions of a sequence that hold x
Occurrences(q, x) == Cardinality({k \in DOMAIN q : q[k] = x})

SkippedRecord(i) ==
  /\ rRec[i].pc = "done"
  /\ rRec[i].seen \notin {"(unread)", NoRecord}
  /\ rRec[i].seen \in {"DRAFT", "CANCELLED"} \/ creds = "absent"

\* C32: a record reconcileInvoice finds in DRAFT or CANCELLED, or whose
\* tenant has no credentials, is not queried and not written, gets no
\* RECONCILIATION_FIX audit record and no entry in report.details, and the
\* batch it is in adds to discrepanciesFound, fixed and errors at most one
\* for each of its other records.
C32_SkippedRecordUntouched ==
  /\ [](\A i \in Invoices :
          SkippedRecord(i)
            => /\ rObs.queries[i] = 0
               /\ rObs.writes[i] = 0
               /\ rRec[i].answer = "(none)"
               /\ Occurrences(report.details, i) = 0)
  /\ []((\A i \in Invoices : rRec[i].pc = "done" => SkippedRecord(i))
          => /\ audit.fix = rObs.fixesAtStart
             /\ report.discrepanciesFound = 0
             /\ report.fixed = 0
             /\ report.errors = 0)
  /\ [][report' # report /\ rPc = "batch"
          => LET others == Cardinality({i \in Batch(rNext) :
                                          ~SkippedRecord(i)})
             IN  /\ report'.discrepanciesFound + report'.errors
                      <= report.discrepanciesFound + report.errors + others
                 /\ report'.fixed <= report.fixed + others
                 /\ Len(report'.details) <= Len(report.details) + others]_vars

\* a document was cancelled after the run had selected it: the run
\* returned having queried the other documents only, one of them fixed
C32_Witness ==
  /\ RunReturned
  /\ report.totalChecked = MaxInvoices
  /\ rRec[1].seen = "CANCELLED"
  /\ SkippedRecord(1)
  /\ rObs.queries = [i \in Invoices |-> IF i = 1 THEN 0 ELSE 1]
  /\ report.fixed = 1

\* the records whose status query is outstanding
Querying == {i \in Invoices : rRec[i].pc = "querying"}

\* the position of a selected record in invoicesToCheck
PositionOf(i) == CHOOSE k \in DOMAIN rSelected : rSelected[k] = i

\* C33: at no time are more than 5 status queries of a run outstanding, and
\* they belong to 5 consecutive selected records starting at a multiple of
\* 5; queries are started only when none is outstanding and every earlier
\* selected record is done, and those of a later batch only once 2000 ms
\* have passed since the batch before it was settled.
C33_BatchesOfFiveThenDelay ==
  /\ [](/\ Cardinality(Querying) <= 5
        /\ \A i \in Querying :
             /\ \E k \in DOMAIN rSelected : rSelected[k] = i
             /\ rNext < PositionOf(i) /\ PositionOf(i) <= rNext + 5
        /\ rNext % 5 = 0)
  /\ [][(Querying' \ Querying # {})
          => /\ Querying = {}
             /\ \A k \in DOMAIN rSelected :
                  k <= rNext => rRec[rSelected[k]].pc = "done"
             /\ rNext > 0 => rPc = "delay" /\ now >= rWake]_vars
  /\ [][(rPc # "delay" /\ rPc' = "delay")
          => /\ Querying = {}
             /\ rWake' = now + 2000
             /\ rNext' = rNext + 5]_vars

\* the sixth record is being queried, 2000 ms after the first five were
\* settled
C33_Witness ==
  /\ rPc = "batch"
  /\ Len(rSelected) = MaxInvoices
  /\ rObs.batches = 2
  /\ Querying = {rSelected[MaxInvoices]}
  /\ now = 2000
  /\ \A k \in 1..5 : rRec[rSelected[k]].pc = "done"

\* C34: when Enviar answers with a rejection, the record's status is
\* REJECTED when processInvoice has finished that attempt of the job.
C34_RejectionEndsRejected ==
  [][jObs'.rejected > jObs.rejected
       => /\ jPc' # "sending"
          /\ local'[JobInvoice] = "REJECTED"]_vars

\* the documented status lifecycle
Lifecycle ==
  {<<"QUEUED", "PROCESSING">>, <<"PROCESSING", "AUTHORIZED">>,
   <<"PROCESSING", "REJECTED">>, <<"PROCESSING", "FAILED">>,
   <<"AUTHORIZED", "ANNULLED">>}

\* C35: every change of status the invoice processor makes is one of
\* QUEUED -> PROCESSING, PROCESSING -> AUTHORIZED | REJECTED | FAILED,
\* AUTHORIZED -> ANNULLED.
C35_StatusFollowsLifecycle ==
  \A t \in jObs.transitions : t[1] # t[2] => t \in Lifecycle

\* C36: once processInvoice has written AUTHORIZED for the invoice of a
\* job, no attempt of that job calls Enviar again, whatever failed after
\* the write.
C36_AuthorizedNeverResubmitted ==
  [][jObs.accepted > 0 => jObs'.enviarCalls = jObs.enviarCalls]_vars

\* the first call of the client, under the default breaker, in which every
\* attempt so far met a timeout or the open breaker
FirstCallAllTimeouts ==
  /\ config = [failureThreshold |-> 5, successThreshold |-> 2,
               timeout |-> 60000, monitoringPeriod |-> 120000]
  /\ xObs.calls = 1
  /\ xOutcome.kind # "returned"
  /\ \A k \in DOMAIN xObs.caught :
       \/ xObs.caught[k].name = "CircuitBreakerOpenError"
       \/ xObs.caught[k].message = <<"HKA SOAP Error", "Timeout">>

\* C37: under the default breaker, started CLOSED with an empty window, a
\* call of executeWithProtection whose operation fails at once with a
\* timeout on every attempt invokes the operation five times, after waits
\* of 2000, 4000, 8000 and 16000 ms; the fifth failure, 30000 ms after the
\* start, opens the breaker until 90000 ms; the sixth attempt, after a wait
\* of 32000 ms, is refused with CircuitBreakerOpenError without invoking
\* the operation, and that error ends the call.
C37_FiveInvocationsThenOpen ==
  FirstCallAllTimeouts
    => /\ xObs.ops <= 5
       /\ invocations = xObs.ops
       /\ state = (IF totalFailures >= 5 THEN "OPEN" ELSE "CLOSED")
       /\ totalFailures = 5
            => /\ nextAttemptTime = xStartTime + 30000 + 60000
               /\ lastFailureTime = xStartTime + 30000
       /\ xPc = "idle"
            => /\ xOutcome.kind = "threw"
               /\ xOutcome.error.name = "CircuitBreakerOpenError"
               /\ xObs.ops = 5
               /\ xObs.executes = 6
               /\ xObs.waits = <<2000, 4000, 8000, 16000, 32000>>
               /\ LastMetric.duration = 62000
               /\ LastMetric.attempts = 6
               /\ state = "OPEN"

\* the call has ended on the open breaker
C37_Witness ==
  /\ FirstCallAllTimeouts
  /\ xPc = "idle"
  /\ xStartTime = 0
  /\ now = 62000
  /\ xObs.ops = 5
  /\ xObs.executes = 6
  /\ xOutcome.error.name = "CircuitBreakerOpenError"
  /\ totalRequests = 6

\* C38: a failure that arrives while the breaker is OPEN, of an operation
\* started before it opened, does not touch the recovery: as long as the
\* breaker stays OPEN its nextAttemptTime keeps its value.
C38_LateFailureKeepsRecovery ==
  [][(state = "OPEN" /\ state' = "OPEN")
       => nextAttemptTime' = nextAttemptTime]_vars
\* C39: reconcileInvoice never replaces a newer stored status by an older
\* observation: when the processor or the poller has stored a terminal
\* status (AUTHORIZED or REJECTED) since reconcileInvoice read the record,
\* and that status is the mapping of the status the document has at the
\* authority now, while the answer reconcileInvoice holds was given before
\* the authority decided, the arrival of the answer leaves the stored
\* status as it is
C39_NewerStatusNotOverwritten ==
  [][\A i \in DOMAIN local :
       (/\ rRec[i].pc = "querying"
        /\ rRec'[i].pc = "done"
        /\ rRec[i].answer \in Estados
        /\ rRec[i].answer # remote[i]
        /\ local[i] \in {"AUTHORIZED", "REJECTED"}
        /\ local[i] # rRec[i].seen
        /\ local[i] = hkaToLocalStatus(remote[i]))
       => local'[i] = local[i]]_vars

\* C40: a record reconcileInvoice reports as fixed has, when the report is
\* made, a stored status equal to the mapping of the remote status of the
\* answer, whatever the answer carries; an answer whose estado has no local
\* mapping is not reported as fixed
C40_FixedMeansMappedStatusStored ==
  [][\A i \in DOMAIN local :
       (/\ rRec[i].pc = "querying"
        /\ rRec'[i].pc = "done"
        /\ rRec'[i].result = "Fixed")
       => /\ rRec'[i].answer \in Estados
          /\ local'[i] = hkaToLocalStatus(rRec'[i].answer)]_vars

====
